---- MODULE Spec2Model ----
(***************************************************************************)
(* Model of the pipeline/lead state kept by the React front end of the     *)
(* AI-powered CRM: Dashboard (pipelineData, activeTab, lead session),      *)
(* KanbanBoard (stages, leads), LeadChat (session, transcript) and the     *)
(* stage reconstruction that turns a flattened builder payload into the    *)
(* ordered stage list; and of the back end's state store (mutate, read,    *)
(* reset), which follows its written contract.                             *)
(***************************************************************************)
EXTENDS Integers, Sequences, FiniteSets, TLC

\* ------------------------------------------------------------------------
\* Bounds of the model
\* ------------------------------------------------------------------------
MaxStages == 2  \* largest total_stages a payload carries
MaxLeads == 2   \* largest number of leads held by the board
MaxPending == 1 \* most requests of one kind outstanding at once
MaxMessages == 3 \* longest lead-chat transcript
MaxCommits == 3  \* most mutations committed to the state store
MaxEvents == 2   \* most events published by the broadcast hub
MaxSessions == 2 \* most builder sessions the agent gateway establishes

\* Date.now() readings, relative to the leads held: two leads are added in
\* the same millisecond or in
\* different ones.
ClockValues == {0, 1}
\* Mounting the board calls fetchLeads twice in a row.
MaxLeadFetches == MaxPending + 1

\* ------------------------------------------------------------------------
\* JavaScript values.  Every value has the same record shape so that values
\* of different JavaScript types can be compared: t is the type tag, s the
\* string content, n the number (or 1/0 for a boolean), a the array elements.
\* ------------------------------------------------------------------------
JS(t, s, n, a) == [t |-> t, s |-> s, n |-> n, a |-> a]
Undef == JS("undefined", "", 0, <<>>)
Null == JS("null", "", 0, <<>>)
Str(s) == JS("string", s, 0, <<>>)
Num(n) == JS("number", "", n, <<>>)
Bool(b) == JS("boolean", "", IF b THEN 1 ELSE 0, <<>>)
Arr(a) == JS("array", "", 0, a)

\* JavaScript truthiness: undefined, null, "", 0 and false are falsy; every
\* array (also the empty one) is truthy.
Truthy(v) ==
    CASE v.t = "undefined" -> FALSE
      [] v.t = "null" -> FALSE
      [] v.t = "string" -> v.s # ""
      [] v.t = "number" -> v.n # 0
      [] v.t = "boolean" -> v.n = 1
      [] OTHER -> TRUE

\* v || d
Or(v, d) == IF Truthy(v) THEN v ELSE d

\* The number of loop rounds of `for (let i = 1; i <= totalStages; i++)`:
\* i <= totalStages converts totalStages to a number; a numeric string
\* converts to its value, everything else that is not a number never
\* satisfies the comparison.
LoopRounds(totalStages) ==
    CASE totalStages.t = "number" ->
            IF totalStages.n >= 1 THEN totalStages.n ELSE 0
      [] totalStages.t = "string" ->
            IF \E k \in 1..(MaxStages + 1) : ToString(k) = totalStages.s
            THEN CHOOSE k \in 1..(MaxStages + 1) : ToString(k) = totalStages.s
            ELSE 0
      [] OTHER -> 0

\* ------------------------------------------------------------------------
\* Builder payloads (pipelineData).  The flattened keys stage_<i>_<x> are
\* kept as one function per <x>, a key outside its domain is absent.
\* ------------------------------------------------------------------------
Key(p, x, i) == IF i \in DOMAIN p[x] THEN p[x][i] ELSE Undef

Payload(total, biz, complete, names, goals, conds, flds, tags) ==
    [total_stages |-> total, biz_name |-> biz, pipeline_complete |-> complete,
     stage_name |-> names, brief_stage_goal |-> goals,
     entry_condition |-> conds, fields |-> flds, user_tags |-> tags]

\* A Dashboard with no pipeline holds null; the model keeps the record shape
\* and marks it.
NoPipeline == [Payload(Undef, Undef, Undef, <<>>, <<>>, <<>>, <<>>, <<>>)
                 EXCEPT !.pipeline_complete = Null]
IsNull(p) == p = NoPipeline

\* { pipeline_complete: true, loading: true }; loading is read nowhere
MinimalPipeline == Payload(Undef, Undef, Bool(TRUE), <<>>, <<>>, <<>>, <<>>, <<>>)

\* { pipeline_complete: true }
CompleteOnly == MinimalPipeline

\* ------------------------------------------------------------------------
\* Stage reconstruction (KanbanBoard pipelineData effect)
\* ------------------------------------------------------------------------
\* StageOf without the `|| \`Stage ${i}\`` and `|| 'No goal specified'` defaults
StageOfNoDefaults(pipelineData, i) ==
    [id |-> i,
     name |-> Key(pipelineData, "stage_name", i),
     goal |-> Key(pipelineData, "brief_stage_goal", i),
     entry_condition |-> Or(Key(pipelineData, "entry_condition", i), Str("")),
     fields |-> Or(Key(pipelineData, "fields", i), Arr(<<>>)),
     user_tags |-> Or(Key(pipelineData, "user_tags", i),
                      Arr(<<"stage_" \o ToString(i), "active">>))]

\* StageOf giving every stage the default tags, whatever the payload holds
StageOfDefaultTags(pipelineData, i) ==
    [id |-> i,
     name |-> Or(Key(pipelineData, "stage_name", i), Str("Stage " \o ToString(i))),
     goal |-> Or(Key(pipelineData, "brief_stage_goal", i), Str("No goal specified")),
     entry_condition |-> Or(Key(pipelineData, "entry_condition", i), Str("")),
     fields |-> Or(Key(pipelineData, "fields", i), Arr(<<>>)),
     user_tags |-> Arr(<<"stage_" \o ToString(i), "active">>)]

StageOf(pipelineData, i) ==
    [id |-> i,
     name |-> Or(Key(pipelineData, "stage_name", i), Str("Stage " \o ToString(i))),
     goal |-> Or(Key(pipelineData, "brief_stage_goal", i), Str("No goal specified")),
     entry_condition |-> Or(Key(pipelineData, "entry_condition", i), Str("")),
     fields |-> Or(Key(pipelineData, "fields", i), Arr(<<>>)),
     user_tags |-> Or(Key(pipelineData, "user_tags", i),
                      Arr(<<"stage_" \o ToString(i), "active">>))]

\* StageLoop with `i < totalStages` as its loop condition
RECURSIVE StageLoopShort(_, _, _, _)
StageLoopShort(pipelineData, i, rounds, stageList) ==
    IF i < rounds
    THEN StageLoopShort(pipelineData, i + 1, rounds,
                        Append(stageList, StageOf(pipelineData, i)))
    ELSE stageList

RECURSIVE StageLoop(_, _, _, _)
StageLoop(pipelineData, i, rounds, stageList) ==
    IF i <= rounds
    THEN StageLoop(pipelineData, i + 1, rounds,
                   Append(stageList, StageOf(pipelineData, i)))
    ELSE stageList

\* const totalStages = pipelineData.total_stages || 0; the loop; stageList
BuildStages(pipelineData) ==
    StageLoop(pipelineData, 1,
              LoopRounds(Or(pipelineData.total_stages, Num(0))), <<>>)

\* if (pipelineData && pipelineData.total_stages)
HasTotalStages(pipelineData) ==
    ~IsNull(pipelineData) /\ Truthy(pipelineData.total_stages)

\* ------------------------------------------------------------------------
\* State
\* ------------------------------------------------------------------------
VARIABLES
    activeTab,      \* Dashboard: 'chat' | 'kanban' | 'leadchat'
    pipelineData,   \* Dashboard: null or the builder payload
    isLoading,      \* Dashboard: a pipeline fetch is running
    fetches,        \* Dashboard: outstanding fetchPipelineData calls; those
                    \* under "switch" are awaited by handlePipelineComplete,
                    \* which then calls setActiveTab('kanban')
    stages,         \* KanbanBoard: committed stage list
    businessName,   \* KanbanBoard
    leads,          \* KanbanBoard: lead list
    isLoadingLeads, \* KanbanBoard
    error,          \* KanbanBoard: null or the load error text
    leadFetches,    \* KanbanBoard: outstanding fetchLeads calls
    kbEffect,       \* KanbanBoard: effects the last render scheduled
    lastMove,       \* history: the moveLeadToStage call of the last step
    leadCalls,      \* history: the fetchLeads calls by issue number, how
                    \* many were issued and which are outstanding
    leadSession,    \* Dashboard: null or the lead session of the lead chat
    leadMessages,   \* Dashboard: the lead chat's transcript
    messages,       \* LeadChat: transcript shown
    sessionInfo,    \* LeadChat: null or the session in use
    lcLoading,      \* LeadChat: isLoading
    creates,        \* LeadChat: outstanding createLeadSession calls, of the
                    \* mounted LeadChat (mine) and of unmounted ones (stale)
    sends,          \* LeadChat: outstanding lead chat requests
    lcEffect,       \* LeadChat: effects the last render scheduled
    queued,         \* React: the state updates queued for the next render,
                    \* of LeadChat's messages and of Dashboard's leadMessages
    crmMessages,    \* CRMChat: messages
    crmLoading,     \* CRMChat: isLoading
    sessionId,      \* CRMChat: null or the builder session id
    welcomeTimer,   \* CRMChat: the 500 ms timer of the welcome message runs
    uploadedFiles,  \* CRMChat: the files uploaded and not yet cleared
    uploads,        \* CRMChat: the files whose /owner/upload is outstanding
    crmEffect,      \* CRMChat: effects the last render scheduled
    owner,          \* outstanding owner chat requests: the session_id each
                    \* carries, of the mounted CRMChat (mine) or an
                    \* unmounted one (stale)
    remote,         \* agent gateway: builder sessions established since the
                    \* last reset
    store,          \* state store: reference of the current snapshot
    heap,           \* state store: the snapshots ever created
    pc,             \* state store: each writer's position in mutate
    committed,      \* state store: the mutations committed, in commit order
    held,           \* state store: the snapshot each reader holds
    registry,       \* broadcast hub: the registered connection ids, in
                    \* registration order
    closed,         \* broadcast hub: registered connections whose transport
                    \* is closed
    pub,            \* broadcast hub: the publish in progress or last done
    hubError,       \* broadcast hub: the last operation raised to its caller
    lastOp,         \* history: the subscribe/unsubscribe of the last step
    file,           \* persistence: content of the snapshot file
    temp,           \* persistence: content of the temporary file
    saver,          \* persistence: position of the save in progress
    process,        \* persistence: "down", "running"
    agentCalls      \* agent gateway: the position of each role's call

dashVars == <<activeTab, pipelineData, isLoading, fetches>>
kbVars == <<stages, businessName, leads, isLoadingLeads, error, leadFetches, kbEffect>>
histVars == <<lastMove, leadCalls>>
leadVars == <<leadSession, leadMessages, messages, sessionInfo, lcLoading,
              creates, sends, lcEffect, queued>>
chatVars == <<crmMessages, crmLoading, sessionId, welcomeTimer, uploadedFiles, uploads,
              crmEffect, owner, remote>>
storeVars == <<store, heap, pc, committed, held>>
hubVars == <<registry, closed, pub, hubError, lastOp>>
fileVars == <<file, temp, saver, process>>
gateVars == <<agentCalls>>
backVars == <<storeVars, hubVars, fileVars, gateVars>>
vars == <<dashVars, kbVars, histVars, leadVars, chatVars, backVars>>

\* ------------------------------------------------------------------------
\* Dashboard
\* ------------------------------------------------------------------------
\* What the back end and the builder agent can hand over: total_stages 0 or
\* 1..MaxStages, with or without biz_name and stage names.  (Payloads
\* without total_stages are MinimalPipeline and those of ReconPayloads.)
NamedStages(v) == [i \in 1..MaxStages |-> Str(v \o ToString(i))]
NoKeys == [i \in 1..MaxStages |-> Undef]

UIPayloads ==
    {Payload(Num(n), Str("Acme"), Undef, NoKeys, NoKeys, NoKeys, NoKeys, NoKeys) :
        n \in 0..MaxStages}
    \cup {Payload(Num(MaxStages), Str("Acme"), Undef, NamedStages("New"),
                  NoKeys, NoKeys, NoKeys, NoKeys)}
    \cup {Payload(Num(MaxStages), Undef, Undef, NoKeys, NoKeys, NoKeys, NoKeys, NoKeys)}

\* const isPipelineReady = pipelineData && (total_stages || pipeline_complete)
IsPipelineReady(pd) ==
    ~IsNull(pd) /\ (Truthy(pd.total_stages) \/ Truthy(pd.pipeline_complete))

Pending == fetches.plain + fetches.switch

\* setPipelineData(v) re-renders, and re-runs the effects that depend on
\* pipelineData, unless v is the value already held; every payload parsed
\* from a response is a new object.
PipelineDataSet(v) == ~(IsNull(v) /\ IsNull(pipelineData))

DashInit ==
    /\ activeTab = "chat"
    /\ pipelineData = NoPipeline
    /\ isLoading = TRUE           \* the mount effect has called fetchPipelineData
    /\ fetches = [plain |-> 1, switch |-> 0]

\* fetchPipelineData, from its call to the await
StartFetch(kind) ==
    /\ isLoading' = TRUE
    /\ fetches' = [fetches EXCEPT ![kind] = @ + 1]

\* fetchPipelineData, from the response on; result is the parsed body of an
\* ok response, or null for a non-ok response or a thrown error.  A fetch
\* awaited by handlePipelineComplete is followed by setActiveTab('kanban').
D_FetchDone(kind, result) ==
    /\ fetches[kind] > 0
    /\ fetches' = [fetches EXCEPT ![kind] = @ - 1]
    /\ pipelineData' = result
    /\ isLoading' = FALSE
    /\ activeTab' = IF kind = "switch" THEN "kanban" ELSE activeTab

\* the Refresh button of the header (disabled while isLoading)
D_Refresh ==
    /\ ~isLoading
    /\ Pending < MaxPending
    /\ StartFetch("plain")
    /\ UNCHANGED <<activeTab, pipelineData>>

\* handlePipelineComplete(payload) with a full payload
HandlePipelineCompleteFull(payload) ==
    /\ Truthy(payload.biz_name) /\ Truthy(payload.total_stages)
    /\ pipelineData' = payload
    /\ activeTab' = "kanban"
    /\ UNCHANGED <<isLoading, fetches>>

\* handlePipelineComplete(payload) otherwise, up to its await
HandlePipelineCompleteMinimal(payload) ==
    /\ ~(Truthy(payload.biz_name) /\ Truthy(payload.total_stages))
    /\ Pending < MaxPending
    /\ pipelineData' = MinimalPipeline
    /\ StartFetch("switch")
    /\ UNCHANGED activeTab

\* handlePipelineComplete(payload).  CRMChat calls it from the continuation
\* of an owner chat request, which outlives CRMChat's own mounting, with
\* data.pipeline_payload || { pipeline_complete: true }.
D_HandlePipelineComplete(payload) ==
    \/ HandlePipelineCompleteFull(payload)
    \/ HandlePipelineCompleteMinimal(payload)

\* a tab button: onClick={() => !isDisabled && setActiveTab(tab.id)}
D_SetActiveTab(tab) ==
    /\ tab # activeTab
    /\ tab = "chat" \/ IsPipelineReady(pipelineData)
    /\ activeTab' = tab
    /\ UNCHANGED <<pipelineData, isLoading, fetches>>

\* resetState, the confirm dialog accepted
D_ResetState ==
    /\ pipelineData' = NoPipeline
    /\ activeTab' = "chat"
    /\ UNCHANGED <<isLoading, fetches>>

\* ------------------------------------------------------------------------
\* KanbanBoard (mounted while activeTab = 'kanban')
\* ------------------------------------------------------------------------
Lead(id, session_id, stage, created_at) ==
    [id |-> id, session_id |-> session_id, stage |-> stage, created_at |-> created_at]

\* an ISO timestamp: a string, ordered as the instants n are
Time(n) == JS("string", "T" \o ToString(n), n, <<>>)

\* { ...defaults, ...lead }: a key the lead carries replaces the default
Spread(default, own) == IF own.t # "undefined" THEN own ELSE default

\* the map body without the default of stage
SanitizeLeadNoStageDefault(lead, t) ==
    Lead(Spread(Or(lead.session_id, Or(lead.id, Str("lead-" \o ToString(t)))), lead.id),
         lead.session_id,
         lead.stage,
         Spread(Or(lead.created_at, Time(t)), lead.created_at))

\* the body of leadsData.map in fetchLeads; t is the value of Date.now()
SanitizeLead(lead, t) ==
    Lead(Spread(Or(lead.session_id, Or(lead.id, Str("lead-" \o ToString(t)))), lead.id),
         lead.session_id,
         Spread(Or(lead.stage, Num(1)), lead.stage),
         Spread(Or(lead.created_at, Time(t)), lead.created_at))

SanitizeLeads(leadsData, t) ==
    [k \in 1..Len(leadsData) |-> SanitizeLead(leadsData[k], t)]

\* The clock never runs backwards: a reading of Date.now() is at least the
\* latest reading found in the id of a lead added by addNewLead.
LatestClock(ls) ==
    IF \E k \in 1..Len(ls), c \in ClockValues :
           c > 0 /\ ls[k].id = Str("lead-" \o ToString(c))
    THEN CHOOSE c \in ClockValues :
           /\ \E k \in 1..Len(ls) : ls[k].id = Str("lead-" \o ToString(c))
           /\ \A k \in 1..Len(ls), d \in ClockValues :
                  ls[k].id = Str("lead-" \o ToString(d)) => d <= c
    ELSE 0

\* leads.filter(lead => lead.stage === stageId), as positions in leads
LeadsForStage(ls, stageId) == {k \in 1..Len(ls) : ls[k].stage = Num(stageId)}

\* getLeadsForStage(stageId).map(lead => lead.id), in list order
RECURSIVE FilterIds(_, _, _)
FilterIds(ls, stageId, k) ==
    IF k > Len(ls) THEN <<>>
    ELSE (IF ls[k].stage = Num(stageId) THEN <<ls[k].id>> ELSE <<>>)
         \o FilterIds(ls, stageId, k + 1)

GetLeadsForStage(stageId) == FilterIds(leads, stageId, 1)

\* prevLeads.map(lead => (lead.id === leadId || lead.session_id === leadId)
\*                         ? { ...lead, stage: newStage } : lead)
\* MovedLeads matching on session_id alone
MovedLeadsBySession(prevLeads, leadId, newStage) ==
    [k \in 1..Len(prevLeads) |->
        IF prevLeads[k].session_id = leadId
        THEN [prevLeads[k] EXCEPT !.stage = Num(newStage)]
        ELSE prevLeads[k]]

MovedLeads(prevLeads, leadId, newStage) ==
    [k \in 1..Len(prevLeads) |->
        IF prevLeads[k].id = leadId \/ prevLeads[k].session_id = leadId
        THEN [prevLeads[k] EXCEPT !.stage = Num(newStage)]
        ELSE prevLeads[k]]

\* the board is rendered (not the "No Pipeline Available" card)
BoardShown ==
    /\ activeTab = "kanban"
    /\ HasTotalStages(pipelineData)
    /\ Len(stages) > 0

NoMove == [id |-> Undef, from |-> 0, to |-> 0]

\* no fetchLeads call was issued
NoCalls == [issued |-> 0, open |-> {}]

KbUnmounted ==
    /\ stages' = <<>>
    /\ businessName' = Str("")
    /\ leads' = <<>>
    /\ isLoadingLeads' = FALSE
    /\ error' = Null
    /\ leadFetches' = 0

\* the useState initial values of a KanbanBoard
KbFresh ==
    /\ stages = <<>>
    /\ businessName = Str("")
    /\ leads = <<>>
    /\ isLoadingLeads = FALSE
    /\ error = Null
    /\ leadFetches = 0

KbInit ==
    /\ KbFresh
    /\ kbEffect = "none"
    /\ lastMove = NoMove
    /\ leadCalls = NoCalls

\* What a Dashboard step means for the board: a switch to 'kanban' mounts a
\* new KanbanBoard (useState initial values, both effects scheduled), a
\* switch away unmounts it (its state and the continuations of its fetches
\* are gone), and a new pipelineData under a mounted board schedules the
\* pipelineData effect.
KbFollow ==
    IF activeTab' = "kanban"
    THEN IF activeTab = "kanban"
         THEN /\ kbEffect' = IF PipelineDataSet(pipelineData') /\ pipelineData' # pipelineData
                             THEN "update" ELSE "none"
              /\ UNCHANGED <<stages, businessName, leads, isLoadingLeads, error, leadFetches>>
         ELSE KbUnmounted /\ kbEffect' = "mount"
    ELSE KbUnmounted /\ kbEffect' = "none"

\* a step that is no moveLeadToStage call
NotAMove == lastMove' = NoMove /\ UNCHANGED leadCalls

\* fetchLeads up to its await, called `calls` times in a row
StartFetchLeads(calls) ==
    /\ isLoadingLeads' = TRUE
    /\ error' = Null
    /\ leadFetches' = leadFetches + calls

\* The effects of a render: useEffect(..., [pipelineData]) and, after the
\* first render only, useEffect(..., []).
KanbanEffects ==
    /\ kbEffect # "none"
    /\ kbEffect' = "none"
    /\ IF HasTotalStages(pipelineData)
       THEN /\ businessName' = Or(pipelineData.biz_name, Str("Business Pipeline"))
            /\ stages' = BuildStages(pipelineData)
            /\ StartFetchLeads(IF kbEffect = "mount" THEN 2 ELSE 1)
            /\ UNCHANGED leads
       ELSE /\ stages' = <<>>
            /\ leads' = <<>>
            /\ UNCHANGED <<businessName, isLoadingLeads, error, leadFetches>>
    /\ NotAMove
    /\ UNCHANGED <<dashVars, leadVars, chatVars, backVars>>

\* what GET /state/leads can return: no lead, one lead keyed by id or by
\* session_id with no stage or any stage number, or two leads in the first
\* or the last stage
RawStages == {Undef} \cup {Num(n) : n \in 0..(MaxStages + 1)}
EndStages == {Num(1), Num(MaxStages)}
RawLeadA(st) == Lead(Str("a"), Undef, st, Time(0))
RawLeadB(st) == Lead(Undef, Str("b"), st, Time(0))

LeadResponses ==
    {<<>>}
    \cup {<<RawLeadA(st)>> : st \in RawStages}
    \cup {<<RawLeadB(st)>> : st \in RawStages}
    \cup {<<RawLeadA(s1), RawLeadB(s2)>> : s1 \in EndStages, s2 \in EndStages}

\* fetchLeads after an ok response
FetchLeadsOk(leadsData) ==
    /\ kbEffect = "none"
    /\ leadFetches > 0
    /\ leadFetches' = leadFetches - 1
    /\ leads' = SanitizeLeads(leadsData, LatestClock(leads))
    /\ isLoadingLeads' = FALSE
    /\ NotAMove
    /\ UNCHANGED <<dashVars, leadVars, chatVars, backVars, stages, businessName, error,
                   kbEffect>>

\* fetchLeads after a response that is not ok
FetchLeadsNotOk ==
    /\ kbEffect = "none"
    /\ leadFetches > 0
    /\ leadFetches' = leadFetches - 1
    /\ leads' = <<>>
    /\ isLoadingLeads' = FALSE
    /\ NotAMove
    /\ UNCHANGED <<dashVars, leadVars, chatVars, backVars, stages, businessName, error,
                   kbEffect>>

\* fetchLeads after a thrown error (network failure, body not a list)
FetchLeadsError ==
    /\ kbEffect = "none"
    /\ leadFetches > 0
    /\ leadFetches' = leadFetches - 1
    /\ error' = Str("Failed to load leads data")
    /\ leads' = <<>>
    /\ isLoadingLeads' = FALSE
    /\ NotAMove
    /\ UNCHANGED <<dashVars, leadVars, chatVars, backVars, stages, businessName, kbEffect>>

\* the board's Refresh button (disabled while isLoadingLeads)
RefreshLeads ==
    /\ kbEffect = "none"
    /\ BoardShown
    /\ ~isLoadingLeads
    /\ leadFetches < MaxLeadFetches
    /\ StartFetchLeads(1)
    /\ NotAMove
    /\ UNCHANGED <<dashVars, leadVars, chatVars, backVars, stages, businessName, leads,
                   kbEffect>>

\* moveLeadToStage(leadId, newStage)
MoveLeadToStage(leadId, newStage) ==
    /\ leads' = MovedLeads(leads, leadId, newStage)
    /\ UNCHANGED <<dashVars, leadVars, chatVars, backVars, stages, businessName,
                   isLoadingLeads, error,
                   leadFetches, kbEffect>>

\* the "previous stage" button of a lead card: stage.id > 1
ClickMovePrev(i, k) ==
    /\ kbEffect = "none"
    /\ BoardShown
    /\ i \in 1..Len(stages)
    /\ k \in LeadsForStage(leads, stages[i].id)
    /\ stages[i].id > 1
    /\ MoveLeadToStage(leads[k].id, stages[i].id - 1)
    /\ lastMove' = [id |-> leads[k].id, from |-> stages[i].id, to |-> stages[i].id - 1]
    /\ UNCHANGED leadCalls

\* the "next stage" button of a lead card: stage.id < stages.length
ClickMoveNext(i, k) ==
    /\ kbEffect = "none"
    /\ BoardShown
    /\ i \in 1..Len(stages)
    /\ k \in LeadsForStage(leads, stages[i].id)
    /\ stages[i].id < Len(stages)
    /\ MoveLeadToStage(leads[k].id, stages[i].id + 1)
    /\ lastMove' = [id |-> leads[k].id, from |-> stages[i].id, to |-> stages[i].id + 1]
    /\ UNCHANGED leadCalls

\* addNewLead(stageId), the "Add Lead" button of column i; t is Date.now()
AddNewLead(i, t) ==
    /\ kbEffect = "none"
    /\ BoardShown
    /\ i \in 1..Len(stages)
    /\ Len(leads) < MaxLeads
    /\ t >= LatestClock(leads)
    /\ leads' = Append(leads, Lead(Str("lead-" \o ToString(t)), Undef,
                                   Num(stages[i].id), Time(t)))
    /\ NotAMove
    /\ UNCHANGED <<dashVars, leadVars, chatVars, backVars, stages, businessName,
                   isLoadingLeads, error,
                   leadFetches, kbEffect>>

\* ------------------------------------------------------------------------
\* LeadChat and the lead session kept by Dashboard
\* ------------------------------------------------------------------------
NoSession == [session_id |-> ""]
\* what POST /lead/create answers
Sessions == {[session_id |-> "s1"], [session_id |-> "s2"]}

\* how an agent request ends: a reply, or the remote call timing out, being
\* rate-limited, failing internally, or the service not being there
Failures == {"timeout", "rate-limit", "internal", "not-found"}
Outcomes == {"ok"} \cup Failures

Message(sender, content) == [sender |-> sender, content |-> content]
Welcome == Message("agent", "Welcome")
WelcomeBack == Message("agent", "Welcome back")
CreateError == Message("system", "Error")
UserMessage == Message("user", "input")
AgentMessage == Message("agent", "response")
SendError == Message("system", "Sorry")

\* no state update is queued
NoUpdates == [messages |-> <<>>, leadMessages |-> <<>>]

\* useState initial values of Dashboard and no LeadChat mounted
LcInit ==
    /\ leadSession = NoSession
    /\ leadMessages = <<>>
    /\ messages = <<>>
    /\ sessionInfo = NoSession
    /\ lcLoading = FALSE
    /\ creates = [mine |-> 0, stale |-> 0]
    /\ sends = 0
    /\ lcEffect = "none"
    /\ queued = NoUpdates

\* No LeadChat is mounted: its state is gone, a lead chat request still
\* outstanding answers to nobody, and a createLeadSession call still
\* outstanding keeps its onSessionCreated.
LcUnmounted ==
    /\ messages' = <<>>
    /\ sessionInfo' = NoSession
    /\ lcLoading' = FALSE
    /\ sends' = 0
    /\ creates' = [mine |-> 0, stale |-> creates.stale + creates.mine]

\* What a Dashboard step means for the lead chat: a switch to 'leadchat'
\* mounts a new LeadChat on existingSession and existingMessages, a switch
\* away unmounts it; Dashboard keeps leadSession and leadMessages.
LcFollow ==
    /\ UNCHANGED <<leadSession, leadMessages, queued>>
    /\ IF activeTab' = "leadchat"
       THEN IF activeTab = "leadchat"
            THEN UNCHANGED <<messages, sessionInfo, lcLoading, creates, sends, lcEffect>>
            ELSE /\ messages' = leadMessages
                 /\ sessionInfo' = leadSession
                 /\ lcLoading' = FALSE
                 /\ lcEffect' = "mount"
                 /\ UNCHANGED <<creates, sends>>
       ELSE LcUnmounted /\ lcEffect' = "none"

\* useEffect(..., [messages, onMessagesUpdate]) -> handleLeadMessagesUpdate
MessagesUpdate ==
    leadMessages' = IF Len(messages') > 0 THEN messages' ELSE leadMessages

\* The effects of LeadChat's first render: use the existing session, or
\* call createLeadSession (up to its await); load the existing messages.
LeadChatEffects ==
    /\ lcEffect = "mount"
    /\ lcEffect' = "none"
    /\ IF leadSession # NoSession
       THEN /\ sessionInfo' = leadSession
            /\ messages' = IF Len(messages) = 0 /\ Len(leadMessages) = 0
                           THEN <<WelcomeBack>>
                           ELSE IF Len(leadMessages) > 0 THEN leadMessages ELSE messages
            /\ UNCHANGED <<lcLoading, creates>>
       ELSE /\ lcLoading' = TRUE
            /\ creates' = [creates EXCEPT !.mine = @ + 1]
            /\ messages' = IF Len(leadMessages) > 0 THEN leadMessages ELSE messages
            /\ UNCHANGED sessionInfo
    /\ MessagesUpdate
    /\ UNCHANGED <<leadSession, sends, queued>>
    /\ UNCHANGED <<dashVars, kbVars, histVars, chatVars, backVars>>

\* createLeadSession after an ok response.  The continuation of an
\* unmounted LeadChat still calls onSessionCreated; a LeadChat mounted at
\* that moment then runs its [existingSession] effects.
CreateLeadSessionOk(who, sessionData) ==
    /\ kbEffect = "none" /\ lcEffect = "none"
    /\ creates[who] > 0
    /\ creates' = [creates EXCEPT ![who] = @ - 1]
    /\ leadSession' = sessionData
    /\ IF who = "mine"
       THEN /\ sessionInfo' = sessionData
            /\ messages' = <<Welcome>>
            /\ lcLoading' = FALSE
       ELSE IF activeTab = "leadchat"
            THEN /\ sessionInfo' = sessionData
                 /\ messages' = IF Len(messages) = 0 /\ Len(leadMessages) = 0
                                THEN <<WelcomeBack>> ELSE messages
                 /\ UNCHANGED lcLoading
            ELSE UNCHANGED <<sessionInfo, messages, lcLoading>>
    /\ MessagesUpdate
    /\ UNCHANGED <<sends, lcEffect, queued>>
    /\ UNCHANGED <<dashVars, kbVars, histVars, chatVars, backVars>>

\* createLeadSession after a response that is not ok or a thrown error
CreateLeadSessionFail(who) ==
    /\ kbEffect = "none" /\ lcEffect = "none"
    /\ creates[who] > 0
    /\ creates' = [creates EXCEPT ![who] = @ - 1]
    /\ IF who = "mine"
       THEN messages' = <<CreateError>> /\ lcLoading' = FALSE
       ELSE UNCHANGED <<messages, lcLoading>>
    /\ MessagesUpdate
    /\ UNCHANGED <<leadSession, sessionInfo, sends, lcEffect, queued>>
    /\ UNCHANGED <<dashVars, kbVars, histVars, chatVars, backVars>>

\* handleSendMessage with a non-blank input, up to its await
LeadSendMessage ==
    /\ activeTab = "leadchat"
    /\ lcEffect = "none"
    /\ ~lcLoading
    /\ sessionInfo # NoSession
    /\ Len(messages) + 2 <= MaxMessages
    /\ messages' = Append(messages, UserMessage)
    /\ lcLoading' = TRUE
    /\ sends' = sends + 1
    /\ MessagesUpdate
    /\ UNCHANGED <<leadSession, sessionInfo, creates, lcEffect, queued>>
    /\ UNCHANGED <<dashVars, kbVars, histVars, chatVars, backVars>>

\* handleSendMessage from the response on: the agent's reply, or the error
\* message of the catch block
LeadSendDone(outcome) ==
    /\ lcEffect = "none"
    /\ sends > 0
    /\ sends' = sends - 1
    /\ messages' = Append(messages, IF outcome = "ok" THEN AgentMessage ELSE SendError)
    /\ lcLoading' = FALSE
    /\ MessagesUpdate
    /\ UNCHANGED <<leadSession, sessionInfo, creates, lcEffect, queued>>
    /\ UNCHANGED <<dashVars, kbVars, histVars, chatVars, backVars>>

\* ------------------------------------------------------------------------
\* CRMChat (mounted while activeTab = 'chat')
\* ------------------------------------------------------------------------
\* a message of CRMChat; pipeline_payload is NoPipeline where the message
\* has none
ChatMessage(type, content, payload) ==
    [type |-> type, content |-> content, pipeline_payload |-> payload]

ChatWelcome == ChatMessage("agent", "Welcome", NoPipeline)
ChatUser == ChatMessage("user", "input", NoPipeline)
ChatAgent == ChatMessage("agent", "response", NoPipeline)
ChatCompletion(payload) == ChatMessage("system", "Pipeline creation complete", payload)

\* the HTTP status an outcome arrives with; 0: fetch rejects
Status(outcome) ==
    CASE outcome = "ok" -> 200
      [] outcome = "rate-limit" -> 429
      [] outcome = "internal" -> 500
      [] outcome = "not-found" -> 404
      [] outcome = "timeout" -> 0

\* errorContent of the catch block: error.message.includes('status: N')
ErrorContent(outcome) ==
    CASE Status(outcome) = 429 -> "Rate limit exceeded"
      [] Status(outcome) = 500 -> "Server error occurred"
      [] Status(outcome) = 404 -> "Service not found"
      [] OTHER -> "Sorry"

ChatError(outcome) == ChatMessage("error", ErrorContent(outcome), NoPipeline)

\* what the builder agent answers: data.pipeline_complete and
\* data.pipeline_payload (NoPipeline: none)
ChatPayloads ==
    {Payload(Num(MaxStages), Str("Acme"), Undef, NoKeys, NoKeys, NoKeys, NoKeys, NoKeys),
     Payload(Num(MaxStages), Undef, Undef, NoKeys, NoKeys, NoKeys, NoKeys, NoKeys)}

Replies ==
    {[pipeline_complete |-> FALSE, pipeline_payload |-> NoPipeline]}
    \cup {[pipeline_complete |-> TRUE, pipeline_payload |-> p] :
             p \in ChatPayloads \cup {NoPipeline}}

\* The agent gateway creates sessions lazily: a request that carries no
\* session id establishes session n + 1, any other reuses the one it carries.
GatewaySession(carried, n) ==
    IF carried = Null THEN Str("s" \o ToString(n + 1)) ELSE carried

\* useState initial values of a mounted CRMChat, its timer started
ChatFresh ==
    /\ crmMessages = <<>>
    /\ crmLoading = FALSE
    /\ sessionId = Null
    /\ welcomeTimer = TRUE
    /\ uploadedFiles = <<>>
    /\ uploads = {}
    /\ crmEffect = "none"

ChatInit ==
    /\ ChatFresh
    /\ owner = <<>>
    /\ remote = 0

\* no CRMChat is mounted
ChatGone ==
    /\ crmMessages = <<>>
    /\ crmLoading = FALSE
    /\ sessionId = Null
    /\ welcomeTimer = FALSE
    /\ uploadedFiles = <<>>
    /\ uploads = {}
    /\ crmEffect = "none"
    /\ owner = <<>>
    /\ remote = 0

\* the requests of a CRMChat that unmounts answer to nobody
Stale(reqs) == [k \in 1..Len(reqs) |-> [reqs[k] EXCEPT !.by = "stale"]]

Without(reqs, k) == SubSeq(reqs, 1, k - 1) \o SubSeq(reqs, k + 1, Len(reqs))

\* useEffect(..., [messages, onPipelineComplete]): the last message is a
\* system message with a pipeline_payload
LastIsCompletion(msgs) ==
    /\ Len(msgs) > 0
    /\ msgs[Len(msgs)].type = "system"
    /\ ~IsNull(msgs[Len(msgs)].pipeline_payload)

\* What a Dashboard step means for CRMChat, whose requests are reqs after
\* the step: a switch to 'chat' mounts a new CRMChat and a switch away
\* unmounts it, with its state and its timer; a Dashboard render hands a
\* mounted CRMChat a new onPipelineComplete, which re-runs its effect.
ChatFollowWith(reqs) ==
    IF activeTab' = "chat"
    THEN IF activeTab = "chat"
         THEN /\ crmEffect' = IF LastIsCompletion(crmMessages) THEN "notify" ELSE "none"
              /\ owner' = reqs
              /\ UNCHANGED <<crmMessages, crmLoading, sessionId, welcomeTimer,
                             uploadedFiles, uploads>>
         ELSE /\ crmMessages' = <<>>
              /\ crmLoading' = FALSE
              /\ sessionId' = Null
              /\ welcomeTimer' = TRUE
              /\ uploadedFiles' = <<>>
              /\ uploads' = {}
              /\ crmEffect' = "none"
              /\ owner' = Stale(reqs)
    ELSE /\ crmMessages' = <<>>
         /\ crmLoading' = FALSE
         /\ sessionId' = Null
         /\ welcomeTimer' = FALSE
         /\ uploadedFiles' = <<>>
         /\ uploads' = {}
         /\ crmEffect' = "none"
         /\ owner' = Stale(reqs)

ChatFollow == ChatFollowWith(owner) /\ UNCHANGED remote

\* the timer of the mount effect: if (messages.length === 0) of the first
\* render, setMessages([welcome])
WelcomeTimeout ==
    /\ activeTab = "chat"
    /\ welcomeTimer
    /\ crmEffect = "none"
    /\ crmMessages' = <<ChatWelcome>>
    /\ welcomeTimer' = FALSE
    /\ UNCHANGED <<crmLoading, sessionId, uploadedFiles, uploads, crmEffect, owner, remote>>
    /\ UNCHANGED <<dashVars, kbVars, histVars, leadVars, backVars>>

\* handleSendMessage without its isLoading guard
ChatSendMessageUnguarded ==
    /\ activeTab = "chat"
    /\ crmEffect = "none"
    /\ Len(crmMessages) < MaxMessages
    /\ Len(owner) <= MaxPending
    /\ sessionId = Null =>
          remote + Cardinality({k \in 1..Len(owner) : owner[k].session_id = Null}) < MaxSessions
    /\ crmMessages' = Append(crmMessages, ChatUser)
    /\ crmLoading' = TRUE
    /\ owner' = Append(owner, [session_id |-> sessionId, by |-> "mine",
                            files |-> {uploadedFiles[j] : j \in DOMAIN uploadedFiles}])
    /\ UNCHANGED <<sessionId, welcomeTimer, uploadedFiles, uploads, crmEffect, remote>>
    /\ UNCHANGED <<dashVars, kbVars, histVars, leadVars, backVars>>

\* handleSendMessage up to its await; the input is not blank
ChatSendMessage ==
    /\ activeTab = "chat"
    /\ crmEffect = "none"
    /\ ~crmLoading
    /\ Len(crmMessages) < MaxMessages
    /\ Len(owner) <= MaxPending
    /\ sessionId = Null =>
          remote + Cardinality({k \in 1..Len(owner) : owner[k].session_id = Null}) < MaxSessions
    /\ crmMessages' = Append(crmMessages, ChatUser)
    /\ crmLoading' = TRUE
    /\ owner' = Append(owner, [session_id |-> sessionId, by |-> "mine",
                            files |-> {uploadedFiles[j] : j \in DOMAIN uploadedFiles}])
    /\ UNCHANGED <<sessionId, welcomeTimer, uploadedFiles, uploads, crmEffect, remote>>
    /\ UNCHANGED <<dashVars, kbVars, histVars, leadVars, backVars>>

\* handleSendMessage from the response on, the request answered without a
\* completed pipeline or not answered: the mounted CRMChat records the
\* session id of its first reply and the agent's message, or the error
\* message; an unmounted one records nothing.
ChatSendDone(k, outcome) ==
    /\ k \in 1..Len(owner)
    /\ crmEffect = "none"
    /\ owner' = Without(owner, k)
    /\ remote' = IF outcome = "ok" /\ owner[k].session_id = Null THEN remote + 1 ELSE remote
    /\ IF owner[k].by = "mine"
       THEN /\ crmMessages' = Append(crmMessages, IF outcome = "ok" THEN ChatAgent
                                                  ELSE ChatError(outcome))
            /\ sessionId' = IF outcome = "ok" /\ ~Truthy(owner[k].session_id)
                            THEN GatewaySession(owner[k].session_id, remote)
                            ELSE sessionId
            /\ crmLoading' = FALSE
            /\ uploadedFiles' = IF outcome = "ok" THEN <<>> ELSE uploadedFiles
       ELSE UNCHANGED <<crmMessages, sessionId, crmLoading, uploadedFiles>>
    /\ UNCHANGED <<welcomeTimer, uploads, crmEffect>>
    /\ UNCHANGED <<dashVars, kbVars, histVars, leadVars, backVars>>

\* the files offered to the file input
Files == {"f1", "f2"}

ChatUploaded == ChatMessage("system", "uploaded", NoPipeline)
ChatUploadFailed == ChatMessage("error", "Failed to upload", NoPipeline)

\* handleFileUpload for one file, up to its await; the upload button is
\* never disabled
UploadFile(f) ==
    /\ activeTab = "chat"
    /\ crmEffect = "none"
    /\ f \notin uploads
    /\ \A j \in DOMAIN uploadedFiles : uploadedFiles[j] # f
    /\ Len(crmMessages) + Cardinality(uploads) < MaxMessages
    /\ uploads' = uploads \cup {f}
    /\ UNCHANGED <<crmMessages, crmLoading, sessionId, welcomeTimer, uploadedFiles,
                   crmEffect, owner, remote>>
    /\ UNCHANGED <<dashVars, kbVars, histVars, leadVars, backVars>>

\* handleFileUpload from the response on: the file joins uploadedFiles and
\* a confirmation is shown, or the error message of the catch block
UploadDone(f, ok) ==
    /\ crmEffect = "none"
    /\ f \in uploads
    /\ uploads' = uploads \ {f}
    /\ uploadedFiles' = IF ok THEN Append(uploadedFiles, f) ELSE uploadedFiles
    /\ crmMessages' = Append(crmMessages, IF ok THEN ChatUploaded ELSE ChatUploadFailed)
    /\ UNCHANGED <<crmLoading, sessionId, welcomeTimer, crmEffect, owner, remote>>
    /\ UNCHANGED <<dashVars, kbVars, histVars, leadVars, backVars>>

\* ------------------------------------------------------------------------
\* State store (backend/state_manager.py): mutate, read, reset
\* ------------------------------------------------------------------------
Writers == {"reconciler", "admin"}
Readers == {"projector", "persistence"}
Mutations == {"setPipeline", "addLead", "reset"}

EmptySnapshot == [pipeline |-> FALSE, leads |-> 0]

\* the function a mutation applies to a snapshot
Apply(fn, snapshot) ==
    CASE fn = "setPipeline" -> [snapshot EXCEPT !.pipeline = TRUE]
      [] fn = "addLead" -> [snapshot EXCEPT !.leads = @ + 1]
      [] fn = "reset" -> EmptySnapshot
      [] fn \in {"moveLead", "updateLead"} -> snapshot   \* no lead added or removed

\* the mutations of a log applied one at a time, from entry k on
RECURSIVE ApplyAll(_, _, _)
ApplyAll(log, k, snapshot) ==
    IF k > Len(log) THEN snapshot
    ELSE ApplyAll(log, k + 1, Apply(log[k].fn, snapshot))

Idle == [st |-> "idle", fn |-> "", base |-> 0]
NotHeld == [ref |-> 0, value |-> EmptySnapshot]

StoreInit ==
    /\ heap = <<EmptySnapshot>>
    /\ store = 1
    /\ pc = [w \in Writers |-> Idle]
    /\ committed = <<>>
    /\ held = [r \in Readers |-> NotHeld]

uiVars == <<dashVars, kbVars, histVars, leadVars, chatVars>>

\* a mutate that starts while another one is executing
MutateBeginUnguarded(w, fn) ==
    /\ pc[w].st = "idle"
    /\ Len(committed) < MaxCommits
    /\ pc' = [pc EXCEPT ![w] = [st |-> "executing", fn |-> fn, base |-> store]]
    /\ UNCHANGED <<store, heap, committed, held, uiVars, gateVars, hubVars, fileVars>>

\* mutate(fn), entered: no mutation is executing
MutateBegin(w, fn) ==
    /\ \A v \in Writers : pc[v].st = "idle"
    /\ Len(committed) < MaxCommits
    /\ pc' = [pc EXCEPT ![w] = [st |-> "executing", fn |-> fn, base |-> store]]
    /\ UNCHANGED <<store, heap, committed, held, uiVars, gateVars, hubVars, fileVars>>

\* a commit that edits the current snapshot in place
MutateCommitInPlace(w) ==
    /\ pc[w].st = "executing"
    /\ heap' = [heap EXCEPT ![store] = Apply(pc[w].fn, heap[pc[w].base])]
    /\ committed' = Append(committed, [by |-> w, fn |-> pc[w].fn])
    /\ pc' = [pc EXCEPT ![w] = Idle]
    /\ UNCHANGED <<store, held, uiVars, gateVars, hubVars, fileVars>>

\* mutate(fn), committed: a full new snapshot becomes the current one
MutateCommit(w) ==
    /\ pc[w].st = "executing"
    /\ heap' = Append(heap, Apply(pc[w].fn, heap[pc[w].base]))
    /\ store' = Len(heap) + 1
    /\ committed' = Append(committed, [by |-> w, fn |-> pc[w].fn])
    /\ pc' = [pc EXCEPT ![w] = Idle]
    /\ UNCHANGED <<held, uiVars, gateVars, hubVars, fileVars>>

\* read(): the reader is handed the current snapshot
Read(r) ==
    /\ held[r].ref = 0
    /\ held' = [held EXCEPT ![r] = [ref |-> store, value |-> heap[store]]]
    /\ UNCHANGED <<store, heap, pc, committed, uiVars, gateVars, hubVars, fileVars>>

\* the projection, broadcast or file write that held a snapshot is done
Release(r) ==
    /\ held[r].ref # 0
    /\ held' = [held EXCEPT ![r] = NotHeld]
    /\ UNCHANGED <<store, heap, pc, committed, uiVars, gateVars, hubVars, fileVars>>

\* ------------------------------------------------------------------------
\* Broadcast hub (backend/websocket_manager.py): subscribe, unsubscribe,
\* publish
\* ------------------------------------------------------------------------
Conns == {"c1", "c2", "c3"}

Remove(seq, c) == SelectSeq(seq, LAMBDA x : x # c)
Registered == {registry[k] : k \in DOMAIN registry}
Registrations(c) == Cardinality({k \in DOMAIN registry : registry[k] = c})

NoOp == [op |-> "none", c |-> "", was |-> FALSE]

\* no publish yet: event 0, nothing to send.  got, failed, skipped: the
\* outcome per target; after: the targets reached after a failure of this
\* publish; prevFailed: the observers that failed in the publish before.
NoPublish ==
    [event |-> 0, st |-> "idle", todo |-> <<>>, targets |-> {}, got |-> {},
     failed |-> {}, skipped |-> {}, after |-> {}, prevFailed |-> {}]

HubInit ==
    /\ registry = <<>>
    /\ closed = {}
    /\ pub = NoPublish
    /\ hubError = FALSE
    /\ lastOp = NoOp

\* a subscribe that registers the connection id once more
SubscribeAppend(c) ==
    /\ registry' = Append(registry, c)
    /\ closed' = closed \ {c}
    /\ hubError' = FALSE
    /\ lastOp' = [op |-> "subscribe", c |-> c, was |-> c \in Registered]
    /\ UNCHANGED <<pub, uiVars, gateVars, storeVars, fileVars>>

\* subscribe(connectionId, handle): the id is mapped to the new handle
Subscribe(c) ==
    /\ registry' = IF c \in Registered THEN registry ELSE Append(registry, c)
    /\ closed' = closed \ {c}
    /\ hubError' = FALSE
    /\ lastOp' = [op |-> "subscribe", c |-> c, was |-> c \in Registered]
    /\ UNCHANGED <<pub, uiVars, gateVars, storeVars, fileVars>>

\* unsubscribe(connectionId)
Unsubscribe(c) ==
    /\ registry' = Remove(registry, c)
    /\ closed' = closed \ {c}
    /\ hubError' = FALSE
    /\ lastOp' = [op |-> "unsubscribe", c |-> c, was |-> c \in Registered]
    /\ UNCHANGED <<pub, uiVars, gateVars, storeVars, fileVars>>

\* the transport of a registered observer closes
CloseConnection(c) ==
    /\ c \in Registered
    /\ c \notin closed
    /\ closed' = closed \cup {c}
    /\ lastOp' = NoOp
    /\ UNCHANGED <<registry, pub, hubError, uiVars, gateVars, storeVars, fileVars>>

\* publish(event), entered: the observers registered now are its targets
PublishBegin ==
    /\ pub.st # "sending"
    /\ pub.event < MaxEvents
    /\ pub' = [event |-> pub.event + 1, st |-> "sending", todo |-> registry,
               targets |-> Registered, got |-> {}, failed |-> {}, skipped |-> {},
               after |-> {}, prevFailed |-> pub.failed]
    /\ hubError' = FALSE
    /\ lastOp' = NoOp
    /\ UNCHANGED <<registry, closed, uiVars, gateVars, storeVars, fileVars>>

\* a delivery whose failure aborts the publish and reaches the publisher
DeliverAbortOnFailure(ok) ==
    /\ pub.st = "sending"
    /\ pub.todo # <<>>
    /\ LET o == Head(pub.todo) IN
         IF o \notin Registered
         THEN /\ pub' = [pub EXCEPT !.todo = Tail(@), !.skipped = @ \cup {o}]
              /\ UNCHANGED <<registry, closed, hubError>>
         ELSE IF o \in closed \/ ~ok
         THEN /\ pub' = [pub EXCEPT !.todo = <<>>, !.failed = @ \cup {o}]
              /\ registry' = Remove(registry, o)
              /\ closed' = closed \ {o}
              /\ hubError' = TRUE
         ELSE /\ pub' = [pub EXCEPT !.todo = Tail(@), !.got = @ \cup {o},
                                 !.after = IF pub.failed = {} THEN @ ELSE @ \cup {o}]
              /\ UNCHANGED <<registry, closed, hubError>>
    /\ lastOp' = NoOp
    /\ UNCHANGED <<uiVars, gateVars, storeVars, fileVars>>

\* a delivery whose failure leaves the observer registered
DeliverNoDeregister(ok) ==
    /\ pub.st = "sending"
    /\ pub.todo # <<>>
    /\ LET o == Head(pub.todo) IN
         IF o \notin Registered
         THEN pub' = [pub EXCEPT !.todo = Tail(@), !.skipped = @ \cup {o}]
         ELSE IF o \in closed \/ ~ok
         THEN pub' = [pub EXCEPT !.todo = Tail(@), !.failed = @ \cup {o}]
         ELSE pub' = [pub EXCEPT !.todo = Tail(@), !.got = @ \cup {o},
                                 !.after = IF pub.failed = {} THEN @ ELSE @ \cup {o}]
    /\ lastOp' = NoOp
    /\ UNCHANGED <<registry, closed, hubError, uiVars, gateVars, storeVars, fileVars>>

\* publish(event), the send to the next target: an observer unsubscribed
\* meanwhile is passed over; a closed connection or a send error (~ok) is
\* caught and deregisters that observer; the publish goes on.
Deliver(ok) ==
    /\ pub.st = "sending"
    /\ pub.todo # <<>>
    /\ LET o == Head(pub.todo) IN
         IF o \notin Registered
         THEN /\ pub' = [pub EXCEPT !.todo = Tail(@), !.skipped = @ \cup {o}]
              /\ UNCHANGED <<registry, closed>>
         ELSE IF o \in closed \/ ~ok
         THEN /\ pub' = [pub EXCEPT !.todo = Tail(@), !.failed = @ \cup {o}]
              /\ registry' = Remove(registry, o)
              /\ closed' = closed \ {o}
         ELSE /\ pub' = [pub EXCEPT !.todo = Tail(@), !.got = @ \cup {o},
                                 !.after = IF pub.failed = {} THEN @ ELSE @ \cup {o}]
              /\ UNCHANGED <<registry, closed>>
    /\ lastOp' = NoOp
    /\ UNCHANGED <<hubError, uiVars, gateVars, storeVars, fileVars>>

\* publish(event), returned to the publisher
PublishEnd ==
    /\ pub.st = "sending"
    /\ pub.todo = <<>>
    /\ pub' = [pub EXCEPT !.st = "done"]
    /\ lastOp' = NoOp
    /\ UNCHANGED <<registry, closed, hubError, uiVars, gateVars, storeVars, fileVars>>

\* ------------------------------------------------------------------------
\* Persistence manager (backend/state_manager.py): save, load
\* ------------------------------------------------------------------------
\* The snapshot file is one JSON document, modelled by its tokens; a file
\* that does not exist is <<>>.
NullOr(b) == IF b THEN "pipeline" ELSE "null"

\* a serialization that writes no pipeline definition
SerializeNoPipeline(snapshot) == <<"{", "null", snapshot.leads, "}">>

Serialize(snapshot) == <<"{", NullOr(snapshot.pipeline), snapshot.leads, "}">>

Parses(doc) ==
    /\ Len(doc) = 4
    /\ doc[1] = "{"
    /\ doc[2] \in {"null", "pipeline"}
    /\ doc[3] \in Nat
    /\ doc[4] = "}"

Parse(doc) == [pipeline |-> doc[2] = "pipeline", leads |-> doc[3]]

\* the persistence manager between saves: result is the outcome of the last
\* save of this run, snap the snapshot it read, loaded what startup did
IdleSaver(loaded) ==
    [st |-> "idle", kind |-> "", doc |-> <<>>, snap |-> EmptySnapshot,
     result |-> "none", loaded |-> loaded]

FileInit ==
    /\ file = <<>>
    /\ temp = <<>>
    /\ saver = IdleSaver("missing")
    /\ process = "running"

\* the store while the persistence manager runs beside it
PersistMutateBegin(w, fn) ==
    /\ process = "running"
    /\ fn = "addLead" => heap[store].leads < MaxCommits
    /\ MutateBegin(w, fn)

PersistMutateCommit(w) ==
    /\ process = "running"
    /\ MutateCommit(w)

\* the 30 s timer fires, or a graceful shutdown starts: State Store.read()
\* is serialized and the temporary file opened
SaveBegin(kind) ==
    /\ process = "running"
    /\ saver.st = "idle"
    /\ saver' = [saver EXCEPT !.st = "writing", !.kind = kind,
                              !.doc = Serialize(heap[store]),
                              !.snap = heap[store], !.result = "none"]
    /\ temp' = <<>>
    /\ UNCHANGED <<file, process, storeVars, hubVars, uiVars, gateVars>>

\* a save that writes over the snapshot file itself
SaveWriteInPlace ==
    /\ process = "running"
    /\ saver.st = "writing"
    /\ Len(temp) < Len(saver.doc)
    /\ temp' = Append(temp, saver.doc[Len(temp) + 1])
    /\ file' = temp'
    /\ UNCHANGED <<saver, process, storeVars, hubVars, uiVars, gateVars>>

\* the next part of the document is written to the temporary file
SaveWrite ==
    /\ process = "running"
    /\ saver.st = "writing"
    /\ Len(temp) < Len(saver.doc)
    /\ temp' = Append(temp, saver.doc[Len(temp) + 1])
    /\ UNCHANGED <<file, saver, process, storeVars, hubVars, uiVars, gateVars>>

\* the write fails midway (PersistenceIOFailure): logged; a periodic save
\* leaves the process operating in memory, a shutdown goes on
SaveFail ==
    /\ process = "running"
    /\ saver.st = "writing"
    /\ saver' = [saver EXCEPT !.st = "idle", !.result = "failed"]
    /\ process' = IF saver.kind = "shutdown" THEN "down" ELSE "running"
    /\ UNCHANGED <<file, temp, storeVars, hubVars, uiVars, gateVars>>

\* the complete temporary file replaces the snapshot file
SaveRename ==
    /\ process = "running"
    /\ saver.st = "writing"
    /\ temp = saver.doc
    /\ file' = temp
    /\ temp' = <<>>
    /\ saver' = [saver EXCEPT !.st = "idle", !.result = "ok"]
    /\ process' = IF saver.kind = "shutdown" THEN "down" ELSE "running"
    /\ UNCHANGED <<storeVars, hubVars, uiVars, gateVars>>

\* the process dies; what is on disk stays
Crash ==
    /\ process = "running"
    /\ process' = "down"
    /\ UNCHANGED <<file, temp, saver, storeVars, hubVars, uiVars, gateVars>>

\* the store seeded at startup: reset(), then the snapshot loaded directly
Seeded(snapshot) ==
    /\ heap' = <<snapshot>>
    /\ store' = 1
    /\ pc' = [w \in Writers |-> Idle]
    /\ committed' = <<>>
    /\ held' = [r \in Readers |-> NotHeld]

\* a startup that gives up when the snapshot file does not parse
StartupAbortOnParseFailure ==
    /\ process = "down"
    /\ IF file = <<>>
       THEN /\ Seeded(EmptySnapshot)
            /\ saver' = IdleSaver("missing")
            /\ process' = "running"
       ELSE IF Parses(file)
       THEN /\ Seeded(Parse(file))
            /\ saver' = IdleSaver("file")
            /\ process' = "running"
       ELSE /\ saver' = IdleSaver("aborted")
            /\ UNCHANGED <<storeVars, process>>
    /\ UNCHANGED <<file, temp, hubVars, uiVars, gateVars>>

\* process start: the snapshot file is loaded if it exists and parses;
\* otherwise the store starts empty (a parse failure is logged)
Startup ==
    /\ process = "down"
    /\ IF file = <<>>
       THEN /\ Seeded(EmptySnapshot)
            /\ saver' = IdleSaver("missing")
       ELSE IF Parses(file)
       THEN /\ Seeded(Parse(file))
            /\ saver' = IdleSaver("file")
       ELSE /\ Seeded(EmptySnapshot)
            /\ saver' = IdleSaver("unparsable")
    /\ process' = "running"
    /\ UNCHANGED <<file, temp, hubVars, uiVars, gateVars>>

\* ------------------------------------------------------------------------
\* Agent gateway (backend/agents.py): a call per agent role, awaited without
\* a hold on the state store; its reply is reconciled through mutate
\* ------------------------------------------------------------------------
Roles == {"builder", "interactor"}

\* the mutation a role's reconciled reply asks for
FnOf(role) == IF role = "builder" THEN "setPipeline" ELSE "addLead"

GateInit == agentCalls = [role \in Roles |-> "idle"]

\* a call that takes the store's writer slot for the time of the round trip
CallBeginLocking(role) ==
    /\ agentCalls[role] = "idle"
    /\ \A v \in Writers : pc[v].st = "idle"
    /\ agentCalls' = [agentCalls EXCEPT ![role] = "awaiting"]
    /\ pc' = [pc EXCEPT !["reconciler"] = [st |-> "executing", fn |-> FnOf(role), base |-> store]]
    /\ UNCHANGED <<store, heap, committed, held, hubVars, fileVars, uiVars>>

\* send(role, ...), up to the await of the remote agent
CallBegin(role) ==
    /\ agentCalls[role] = "idle"
    /\ agentCalls' = [agentCalls EXCEPT ![role] = "awaiting"]
    /\ UNCHANGED <<storeVars, hubVars, fileVars, uiVars>>

\* the remote agent's reply has returned (or the call has failed)
CallReply(role) ==
    /\ agentCalls[role] = "awaiting"
    /\ agentCalls' = [agentCalls EXCEPT ![role] = "replied"]
    /\ UNCHANGED <<storeVars, hubVars, fileVars, uiVars>>

\* a reconcile that does not wait for the reply
ReconcileBeginEarly(role) ==
    /\ agentCalls[role] # "idle"
    /\ MutateBegin("reconciler", FnOf(role))

\* the reply is reconciled: its mutation enters the store
ReconcileBegin(role) ==
    /\ agentCalls[role] = "replied"
    /\ MutateBegin("reconciler", FnOf(role))

\* send(role, ...) returns to its caller: the reply was reconciled, or
\* rejected with nothing committed
CallEnd(role) ==
    /\ agentCalls[role] = "replied"
    /\ pc["reconciler"].st = "idle"
    /\ agentCalls' = [agentCalls EXCEPT ![role] = "idle"]
    /\ UNCHANGED <<storeVars, hubVars, fileVars, uiVars>>

BackInit == StoreInit /\ HubInit /\ FileInit /\ GateInit

\* ------------------------------------------------------------------------
\* Dashboard with its KanbanBoard; the lead chat is followed by SpecLead
\* ------------------------------------------------------------------------
\* React runs the scheduled effects before it handles the next event.
Quiet == kbEffect = "none"

\* a pipelineData effect that would call fetchLeads needs room for the call
RoomForEffect ==
    activeTab = "kanban" => leadFetches < MaxLeadFetches

FetchDone(kind, result) ==
    /\ Quiet /\ RoomForEffect
    /\ D_FetchDone(kind, result) /\ KbFollow /\ NotAMove
    /\ UNCHANGED <<leadVars, chatVars, backVars>>

Refresh ==
    /\ Quiet
    /\ D_Refresh /\ KbFollow /\ NotAMove
    /\ UNCHANGED <<leadVars, chatVars, backVars>>

HandlePipelineComplete(payload) ==
    /\ Quiet /\ RoomForEffect
    /\ D_HandlePipelineComplete(payload) /\ KbFollow /\ NotAMove
    /\ UNCHANGED <<leadVars, chatVars, backVars>>

SetActiveTab(tab) ==
    /\ Quiet
    /\ D_SetActiveTab(tab) /\ KbFollow /\ NotAMove
    /\ UNCHANGED <<leadVars, chatVars, backVars>>

ResetState ==
    /\ Quiet
    /\ D_ResetState /\ KbFollow /\ NotAMove
    /\ UNCHANGED <<leadVars, chatVars, backVars>>

Tabs == {"chat", "kanban", "leadchat"}

Init == DashInit /\ KbInit /\ LcInit /\ ChatInit /\ BackInit

Next ==
    \/ \E k \in {"plain", "switch"}, r \in UIPayloads \cup {NoPipeline} : FetchDone(k, r)
    \/ Refresh
    \/ \E p \in UIPayloads \cup {CompleteOnly} : HandlePipelineComplete(p)
    \/ \E tab \in Tabs : SetActiveTab(tab)
    \/ ResetState
    \/ KanbanEffects
    \/ \E d \in LeadResponses : FetchLeadsOk(d)
    \/ FetchLeadsNotOk
    \/ FetchLeadsError
    \/ RefreshLeads
    \/ \E i \in 1..MaxStages, k \in 1..MaxLeads : ClickMovePrev(i, k)
    \/ \E i \in 1..MaxStages, k \in 1..MaxLeads : ClickMoveNext(i, k)
    \/ \E i \in 1..MaxStages, t \in ClockValues : AddNewLead(i, t)

Spec == Init /\ [][Next]_vars

\* ------------------------------------------------------------------------
\* Stage reconstruction on its own: a board mounted on any payload shape
\* ------------------------------------------------------------------------
NameVals == {Undef, Null, Str(""), Str("New")}
GoalVals == {Undef, Null, Str("Qualify")}
TagVals == {Undef, Arr(<<"vip">>), Str("vip")}
TotalVals == {Undef, Null, Num(-1)} \cup {Num(n) : n \in 0..MaxStages}

ReconPayloads ==
    {Payload(t, Str("Acme"), Undef, nm, gl, NoKeys, NoKeys, tg) :
        t \in TotalVals,
        nm \in [1..MaxStages -> NameVals],
        gl \in [1..MaxStages -> GoalVals],
        tg \in [1..MaxStages -> TagVals]}

ReconInit ==
    /\ activeTab = "kanban"
    /\ pipelineData \in ReconPayloads
    /\ isLoading = FALSE
    /\ fetches = [plain |-> 0, switch |-> 0]
    /\ KbFresh
    /\ kbEffect = "mount"
    /\ lastMove = NoMove
    /\ leadCalls = NoCalls
    /\ LcInit
    /\ ChatGone
    /\ BackInit

ReconNext == KanbanEffects

SpecRecon == ReconInit /\ [][ReconNext]_vars

\* ------------------------------------------------------------------------
\* The board's columns on their own: a board mounted on a pipeline of
\* MaxStages stages, loading leads created at different times
\* ------------------------------------------------------------------------
DatedResponses ==
    {<<Lead(Str("a"), Undef, s1, Time(c1)), Lead(Undef, Str("b"), s2, Time(c2))>> :
        s1 \in EndStages, s2 \in EndStages, c1 \in ClockValues, c2 \in ClockValues}

OrderInit ==
    /\ activeTab = "kanban"
    /\ pipelineData = Payload(Num(MaxStages), Str("Acme"), Undef,
                              NoKeys, NoKeys, NoKeys, NoKeys, NoKeys)
    /\ isLoading = FALSE
    /\ fetches = [plain |-> 0, switch |-> 0]
    /\ KbFresh
    /\ kbEffect = "mount"
    /\ lastMove = NoMove
    /\ leadCalls = NoCalls
    /\ LcInit
    /\ ChatGone
    /\ BackInit

OrderNext ==
    \/ KanbanEffects
    \/ \E d \in DatedResponses : FetchLeadsOk(d)
    \/ RefreshLeads
    \/ \E i \in 1..MaxStages, k \in 1..MaxLeads : ClickMovePrev(i, k)
    \/ \E i \in 1..MaxStages, k \in 1..MaxLeads : ClickMoveNext(i, k)

SpecOrder == OrderInit /\ [][OrderNext]_vars

\* ------------------------------------------------------------------------
\* The board of a ready pipeline with its Add Lead buttons: leads arrive
\* with or without a stage, and are added in either column
\* ------------------------------------------------------------------------
AddNext ==
    \/ KanbanEffects
    \/ \E d \in LeadResponses : FetchLeadsOk(d)
    \/ FetchLeadsNotOk
    \/ RefreshLeads
    \/ \E i \in 1..MaxStages, t \in ClockValues : AddNewLead(i, t)

SpecAdd == OrderInit /\ [][AddNext]_vars

\* ------------------------------------------------------------------------
\* The board of a ready pipeline with its Add Lead and move buttons; the
\* back end also returns leads that carry neither an id nor a session_id
\* ------------------------------------------------------------------------
AnonLead(st) == Lead(Undef, Undef, st, Time(0))

MoveResponses ==
    LeadResponses
    \cup {<<AnonLead(s1), AnonLead(s2)>> : s1 \in EndStages, s2 \in EndStages}

MoveNext ==
    \/ KanbanEffects
    \/ \E d \in MoveResponses : FetchLeadsOk(d)
    \/ RefreshLeads
    \/ \E i \in 1..MaxStages, t \in ClockValues : AddNewLead(i, t)
    \/ \E i \in 1..MaxStages, k \in 1..MaxLeads : ClickMovePrev(i, k)
    \/ \E i \in 1..MaxStages, k \in 1..MaxLeads : ClickMoveNext(i, k)

SpecMove == OrderInit /\ [][MoveNext]_vars

\* ------------------------------------------------------------------------
\* Dashboard with its LeadChat.  The board mounts and runs its effects when
\* Dashboard switches to it; its lead requests stay unanswered here.
\* ------------------------------------------------------------------------
\* a switch to 'leadchat' without a session calls createLeadSession
RoomForCreate ==
    creates.mine + creates.stale <= MaxPending

LcQuiet == Quiet /\ lcEffect = "none"

LcFetchDone(kind, result) ==
    /\ LcQuiet /\ RoomForEffect
    /\ D_FetchDone(kind, result) /\ KbFollow /\ LcFollow /\ NotAMove
    /\ UNCHANGED <<chatVars, backVars>>

LcRefresh ==
    /\ LcQuiet
    /\ D_Refresh /\ KbFollow /\ LcFollow /\ NotAMove
    /\ UNCHANGED <<chatVars, backVars>>

LcHandlePipelineComplete(payload) ==
    /\ LcQuiet /\ RoomForEffect
    /\ D_HandlePipelineComplete(payload) /\ KbFollow /\ LcFollow /\ NotAMove
    /\ UNCHANGED <<chatVars, backVars>>

LcSetActiveTab(tab) ==
    /\ LcQuiet
    /\ tab = "leadchat" => RoomForCreate
    /\ D_SetActiveTab(tab) /\ KbFollow /\ LcFollow /\ NotAMove
    /\ UNCHANGED <<chatVars, backVars>>

LcResetState ==
    /\ LcQuiet
    /\ D_ResetState /\ KbFollow /\ LcFollow /\ NotAMove
    /\ UNCHANGED <<chatVars, backVars>>

LeadNext ==
    \/ \E k \in {"plain", "switch"}, r \in UIPayloads \cup {NoPipeline} : LcFetchDone(k, r)
    \/ LcRefresh
    \/ \E p \in UIPayloads \cup {CompleteOnly} : LcHandlePipelineComplete(p)
    \/ \E tab \in Tabs : LcSetActiveTab(tab)
    \/ LcResetState
    \/ KanbanEffects
    \/ LeadChatEffects
    \/ \E who \in {"mine", "stale"}, sd \in Sessions : CreateLeadSessionOk(who, sd)
    \/ \E who \in {"mine", "stale"} : CreateLeadSessionFail(who)
    \/ LeadSendMessage
    \/ \E outcome \in Outcomes : LeadSendDone(outcome)

SpecLead == Init /\ [][LeadNext]_vars

\* ------------------------------------------------------------------------
\* Dashboard with its CRMChat.  The board mounts and runs its effects when
\* Dashboard switches to it; its lead requests and the lead chat stay
\* unanswered here.
\* ------------------------------------------------------------------------
ChatQuiet == Quiet /\ crmEffect = "none"

\* a pipeline fetch answers whenever it does, also between two runs of
\* CRMChat's effect
ChatFetchDone(kind, result) ==
    /\ Quiet /\ RoomForEffect
    /\ D_FetchDone(kind, result) /\ KbFollow /\ ChatFollow /\ NotAMove
    /\ UNCHANGED <<leadVars, backVars>>

ChatRefresh ==
    /\ ChatQuiet
    /\ D_Refresh /\ KbFollow /\ ChatFollow /\ NotAMove
    /\ UNCHANGED <<leadVars, backVars>>

ChatSetActiveTab(tab) ==
    /\ ChatQuiet
    /\ D_SetActiveTab(tab) /\ KbFollow /\ ChatFollow /\ NotAMove
    /\ UNCHANGED <<leadVars, backVars>>

\* resetState also posts /admin/reset-state: the conversations start anew
ChatResetState ==
    /\ ChatQuiet
    /\ D_ResetState /\ KbFollow /\ ChatFollowWith(owner) /\ NotAMove
    /\ remote' = 0
    /\ UNCHANGED <<leadVars, backVars>>

\* handleSendMessage from the response on, the reply reporting
\* pipeline_complete: the agent's message and the completion message are
\* recorded and onPipelineComplete is called with
\* data.pipeline_payload || { pipeline_complete: true }; the call is made
\* also when CRMChat is no longer mounted.
ChatSendComplete(k, payload) ==
    /\ k \in 1..Len(owner)
    /\ ChatQuiet /\ RoomForEffect
    /\ remote' = IF owner[k].session_id = Null THEN remote + 1 ELSE remote
    /\ D_HandlePipelineComplete(IF IsNull(payload) THEN CompleteOnly ELSE payload)
    /\ KbFollow /\ NotAMove
    /\ IF owner[k].by = "mine" /\ activeTab' = "chat"
       THEN /\ crmMessages' = crmMessages \o <<ChatAgent, ChatCompletion(payload)>>
            /\ sessionId' = IF ~Truthy(owner[k].session_id)
                            THEN GatewaySession(owner[k].session_id, remote)
                            ELSE sessionId
            /\ crmLoading' = FALSE
            /\ crmEffect' = IF LastIsCompletion(crmMessages') THEN "notify" ELSE "none"
            /\ owner' = Without(owner, k)
            /\ uploadedFiles' = <<>>
            /\ UNCHANGED <<welcomeTimer, uploads>>
       ELSE ChatFollowWith(Without(owner, k))
    /\ UNCHANGED <<leadVars, backVars>>

\* CRMChat's effect on [messages, onPipelineComplete]: the last message is
\* the completion message, onPipelineComplete is called with its payload,
\* while the fetch of the handler's own call is still awaited
NotifyAgain(payload) ==
    \/ HandlePipelineCompleteFull(payload)
    \/ /\ ~(Truthy(payload.biz_name) /\ Truthy(payload.total_stages))
       /\ Pending <= MaxPending
       /\ pipelineData' = MinimalPipeline
       /\ StartFetch("switch")
       /\ UNCHANGED activeTab

ChatEffects ==
    /\ activeTab = "chat"
    /\ crmEffect = "notify"
    /\ Quiet /\ RoomForEffect
    /\ NotifyAgain(crmMessages[Len(crmMessages)].pipeline_payload)
    /\ KbFollow /\ ChatFollow /\ NotAMove
    /\ UNCHANGED <<leadVars, backVars>>

ChatNext ==
    \/ \E k \in {"plain", "switch"}, r \in UIPayloads \cup {NoPipeline} : ChatFetchDone(k, r)
    \/ ChatRefresh
    \/ \E tab \in Tabs : ChatSetActiveTab(tab)
    \/ ChatResetState
    \/ KanbanEffects
    \/ WelcomeTimeout
    \/ ChatSendMessage
    \/ \E k \in 1..(MaxPending + 1), outcome \in Outcomes : ChatSendDone(k, outcome)
    \/ \E k \in 1..(MaxPending + 1), p \in ChatPayloads \cup {NoPipeline} : ChatSendComplete(k, p)
    \/ ChatEffects

SpecChat == Init /\ [][ChatNext]_vars

\* ------------------------------------------------------------------------
\* CRMChat with its file input: uploads and sends in any interleaving
\* ------------------------------------------------------------------------
UploadNext ==
    \/ WelcomeTimeout
    \/ ChatSendMessage
    \/ \E k \in 1..(MaxPending + 1), outcome \in Outcomes : ChatSendDone(k, outcome)
    \/ \E f \in Files : UploadFile(f)
    \/ \E f \in Files, ok \in BOOLEAN : UploadDone(f, ok)

SpecUpload == Init /\ [][UploadNext]_vars

\* ------------------------------------------------------------------------
\* Both chats under one Dashboard: tab switches mount and unmount CRMChat
\* and LeadChat while their requests are outstanding
\* ------------------------------------------------------------------------
SendQuiet == Quiet /\ lcEffect = "none" /\ crmEffect = "none"

SendPayloads ==
    {Payload(Num(MaxStages), Str("Acme"), Undef, NoKeys, NoKeys, NoKeys, NoKeys, NoKeys),
     NoPipeline}

SendFetchDone(kind, result) ==
    /\ SendQuiet /\ RoomForEffect
    /\ D_FetchDone(kind, result) /\ KbFollow /\ LcFollow /\ ChatFollow /\ NotAMove
    /\ UNCHANGED backVars

SendSetActiveTab(tab) ==
    /\ SendQuiet
    /\ tab = "leadchat" => RoomForCreate
    /\ D_SetActiveTab(tab) /\ KbFollow /\ LcFollow /\ ChatFollow /\ NotAMove
    /\ UNCHANGED backVars

SendNext ==
    \/ \E r \in SendPayloads : SendFetchDone("plain", r)
    \/ \E tab \in Tabs : SendSetActiveTab(tab)
    \/ KanbanEffects
    \/ LeadChatEffects
    \/ \E who \in {"mine", "stale"}, sd \in Sessions : CreateLeadSessionOk(who, sd)
    \/ \E who \in {"mine", "stale"} : CreateLeadSessionFail(who)
    \/ LeadSendMessage
    \/ \E outcome \in Outcomes : LeadSendDone(outcome)
    \/ WelcomeTimeout
    \/ ChatSendMessage
    \/ \E k \in 1..(MaxPending + 1), outcome \in Outcomes : ChatSendDone(k, outcome)

SpecSend == Init /\ [][SendNext]_vars

\* the same with replies that report a completed pipeline; every request is
\* answered or fails in the end, and React runs the effects of every render
ReplyNext ==
    \/ SendNext
    \/ \E r \in SendPayloads : SendFetchDone("switch", r)
    \/ \E k \in 1..(MaxPending + 1), p \in ChatPayloads \cup {NoPipeline} : ChatSendComplete(k, p)
    \/ ChatEffects

ReplyFairness ==
    /\ WF_vars(\E k \in 1..(MaxPending + 1) :
                  \/ \E outcome \in Outcomes : ChatSendDone(k, outcome)
                  \/ \E p \in ChatPayloads \cup {NoPipeline} : ChatSendComplete(k, p))
    /\ WF_vars(\E outcome \in Outcomes : LeadSendDone(outcome))
    /\ WF_vars(KanbanEffects) /\ WF_vars(LeadChatEffects) /\ WF_vars(ChatEffects)

SpecReply == Init /\ [][ReplyNext]_vars /\ ReplyFairness

\* ------------------------------------------------------------------------
\* LeadChat and Dashboard holding the same transcript.  React queues each
\* state update for the next render, commits the render, and runs the
\* effects whose dependencies changed before it renders again; a handler
\* or the continuation of a request runs at any moment between.  isLoading
\* is followed as it is set.
\* ------------------------------------------------------------------------
\* setMessages(prev => [...prev, m]) and setMessages(v)
AppendUpdate(m) == [fn |-> "append", arg |-> <<m>>]
SetUpdate(v) == [fn |-> "set", arg |-> v]

\* the state a render computes from the queued updates, in queue order
RECURSIVE Reduce(_, _)
Reduce(updates, state) ==
    IF updates = <<>> THEN state
    ELSE Reduce(Tail(updates),
                IF Head(updates).fn = "append" THEN state \o Head(updates).arg
                ELSE Head(updates).arg)

\* a LeadChat mounted on its session, showing its first message
SyncInit ==
    /\ activeTab = "leadchat"
    /\ pipelineData = Payload(Num(MaxStages), Str("Acme"), Undef,
                              NoKeys, NoKeys, NoKeys, NoKeys, NoKeys)
    /\ isLoading = FALSE
    /\ fetches = [plain |-> 0, switch |-> 0]
    /\ KbInit
    /\ leadSession \in Sessions
    /\ leadMessages \in {<<Welcome>>, <<WelcomeBack>>}
    /\ messages = leadMessages
    /\ sessionInfo = leadSession
    /\ lcLoading = FALSE
    /\ creates = [mine |-> 0, stale |-> 0]
    /\ sends = 0
    /\ lcEffect = "none"
    /\ queued = NoUpdates
    /\ ChatGone
    /\ BackInit

\* handleSendMessage with a non-blank input, up to its await
SyncSendMessage ==
    /\ ~lcLoading
    /\ sessionInfo # NoSession
    /\ Len(Reduce(queued.messages, messages)) + 2 <= MaxMessages
    /\ queued' = [queued EXCEPT !.messages = Append(@, AppendUpdate(UserMessage))]
    /\ lcLoading' = TRUE
    /\ sends' = sends + 1
    /\ UNCHANGED <<leadSession, leadMessages, messages, sessionInfo, creates, lcEffect>>
    /\ UNCHANGED <<dashVars, kbVars, histVars, chatVars, backVars>>

\* handleSendMessage from the response on
SyncSendDone(outcome) ==
    /\ sends > 0
    /\ sends' = sends - 1
    /\ queued' = [queued EXCEPT !.messages =
                      Append(@, AppendUpdate(IF outcome = "ok" THEN AgentMessage
                                             ELSE SendError))]
    /\ lcLoading' = FALSE
    /\ UNCHANGED <<leadSession, leadMessages, messages, sessionInfo, creates, lcEffect>>
    /\ UNCHANGED <<dashVars, kbVars, histVars, chatVars, backVars>>

\* React renders Dashboard and LeadChat on the queued updates and commits.
\* A Dashboard rendered anew hands LeadChat a new existingMessages and a
\* new onMessagesUpdate, so both effects are scheduled; a LeadChat rendered
\* on its own schedules the [messages, onMessagesUpdate] effect.
SyncRender ==
    /\ lcEffect = "none"
    /\ queued # NoUpdates
    /\ messages' = Reduce(queued.messages, messages)
    /\ leadMessages' = Reduce(queued.leadMessages, leadMessages)
    /\ queued' = NoUpdates
    /\ lcEffect' = IF leadMessages' # leadMessages THEN "both"
                   ELSE IF messages' # messages THEN "messages"
                   ELSE "none"
    /\ UNCHANGED <<leadSession, sessionInfo, lcLoading, creates, sends>>
    /\ UNCHANGED <<dashVars, kbVars, histVars, chatVars, backVars>>

\* The effects of the committed render, on the values it rendered:
\* useEffect(..., [existingMessages]) calls setMessages(existingMessages),
\* useEffect(..., [messages, onMessagesUpdate]) calls onMessagesUpdate,
\* which is setLeadMessages(messages).  A set to the array a state already
\* holds, with nothing queued before it, is dropped.
SyncEffects ==
    /\ lcEffect \in {"messages", "both"}
    /\ lcEffect' = "none"
    /\ queued' =
         [messages |->
              IF /\ lcEffect = "both"
                 /\ Len(leadMessages) > 0
                 /\ ~(queued.messages = <<>> /\ leadMessages = messages)
              THEN Append(queued.messages, SetUpdate(leadMessages))
              ELSE queued.messages,
          leadMessages |->
              IF /\ Len(messages) > 0
                 /\ ~(queued.leadMessages = <<>> /\ messages = leadMessages)
              THEN Append(queued.leadMessages, SetUpdate(messages))
              ELSE queued.leadMessages]
    /\ UNCHANGED <<leadSession, leadMessages, messages, sessionInfo, lcLoading,
                   creates, sends>>
    /\ UNCHANGED <<dashVars, kbVars, histVars, chatVars, backVars>>

SyncNext ==
    \/ SyncSendMessage
    \/ \E outcome \in Outcomes : SyncSendDone(outcome)
    \/ SyncRender
    \/ SyncEffects

\* React renders what is queued and runs the effects it scheduled; every
\* request is answered.
SyncFairness ==
    /\ WF_vars(SyncRender) /\ WF_vars(SyncEffects)
    /\ WF_vars(\E outcome \in Outcomes : SyncSendDone(outcome))

SpecSync == SyncInit /\ [][SyncNext]_vars /\ SyncFairness

\* ------------------------------------------------------------------------
\* A completion payload applied while pipeline fetches issued before it
\* are outstanding: the mount fetch, or a Refresh clicked before the
\* completion.  The server answers such a fetch with the pipeline it held
\* then, or with none.
\* ------------------------------------------------------------------------
Completions ==
    {Payload(Num(n), Str("Acme"), Bool(TRUE), NoKeys, NoKeys, NoKeys, NoKeys, NoKeys) :
        n \in 1..MaxStages}

EarlierPipelines ==
    {Payload(Num(n), Str("Draft"), Undef, NoKeys, NoKeys, NoKeys, NoKeys, NoKeys) :
        n \in 0..MaxStages}

\* the Refresh button, clicked before a completion payload is applied
RefreshBefore ==
    /\ pipelineData \notin Completions
    /\ Refresh

ApplyNext ==
    \/ \E r \in EarlierPipelines \cup {NoPipeline} : FetchDone("plain", r)
    \/ RefreshBefore
    \/ \E p \in Completions : HandlePipelineComplete(p)
    \/ \E tab \in Tabs : SetActiveTab(tab)
    \/ KanbanEffects
    \/ \E d \in LeadResponses : FetchLeadsOk(d)
    \/ FetchLeadsNotOk
    \/ FetchLeadsError

SpecApply == Init /\ [][ApplyNext]_vars

\* ------------------------------------------------------------------------
\* The board's lead fetches by issue number: a board mounted on a pipeline,
\* its fetchLeads calls answered in any order, each with the list the
\* server returns to that call
\* ------------------------------------------------------------------------
MaxCalls == MaxLeadFetches + 2  \* most fetchLeads calls issued

\* GET /state/leads as answered to call k: one lead in some stage, stamped
\* with the call
ResponseTo(k, st) == <<Lead(Str("a"), Undef, st, Time(k))>>

\* fetchLeads up to its await, called `calls` times in a row, numbered
StartFetchLeadsOf(calls) ==
    /\ StartFetchLeads(calls)
    /\ leadCalls' = [issued |-> leadCalls.issued + calls,
                     open |-> leadCalls.open
                                \cup ((leadCalls.issued + 1)..(leadCalls.issued + calls))]

\* The effects of the first render on a pipeline: useEffect(...,
\* [pipelineData]) and useEffect(..., []) both call fetchLeads.
MountEffectsOf ==
    /\ kbEffect = "mount"
    /\ HasTotalStages(pipelineData)
    /\ kbEffect' = "none"
    /\ businessName' = Or(pipelineData.biz_name, Str("Business Pipeline"))
    /\ stages' = BuildStages(pipelineData)
    /\ StartFetchLeadsOf(2)
    /\ lastMove' = NoMove
    /\ UNCHANGED leads
    /\ UNCHANGED <<dashVars, leadVars, chatVars, backVars>>

\* the board's Refresh button (disabled while isLoadingLeads)
RefreshLeadsOf ==
    /\ kbEffect = "none"
    /\ BoardShown
    /\ ~isLoadingLeads
    /\ leadFetches < MaxLeadFetches
    /\ leadCalls.issued < MaxCalls
    /\ StartFetchLeadsOf(1)
    /\ lastMove' = NoMove
    /\ UNCHANGED <<dashVars, leadVars, chatVars, backVars, stages, businessName, leads,
                   kbEffect>>

\* fetchLeads call k after its ok response
FetchLeadsOkOf(k, st) ==
    /\ kbEffect = "none"
    /\ k \in leadCalls.open
    /\ leadCalls' = [leadCalls EXCEPT !.open = @ \ {k}]
    /\ leadFetches' = leadFetches - 1
    /\ leads' = SanitizeLeads(ResponseTo(k, st), LatestClock(leads))
    /\ isLoadingLeads' = FALSE
    /\ lastMove' = NoMove
    /\ UNCHANGED <<dashVars, leadVars, chatVars, backVars, stages, businessName, error,
                   kbEffect>>

FetchNext ==
    \/ MountEffectsOf
    \/ RefreshLeadsOf
    \/ \E k \in 1..MaxCalls, st \in RawStages : FetchLeadsOkOf(k, st)

SpecFetch == OrderInit /\ [][FetchNext]_vars

\* ------------------------------------------------------------------------
\* The state store with its writers and readers
\* ------------------------------------------------------------------------
StoreNext ==
    \/ \E w \in Writers, fn \in Mutations : MutateBegin(w, fn)
    \/ \E w \in Writers : MutateCommit(w)
    \/ \E r \in Readers : Read(r)
    \/ \E r \in Readers : Release(r)

SpecStore == Init /\ [][StoreNext]_vars

\* ------------------------------------------------------------------------
\* The broadcast hub with its observers
\* ------------------------------------------------------------------------
HubNext ==
    \/ \E c \in Conns : Subscribe(c)
    \/ \E c \in Conns : Unsubscribe(c)
    \/ \E c \in Conns : CloseConnection(c)
    \/ PublishBegin
    \/ \E ok \in BOOLEAN : Deliver(ok)
    \/ PublishEnd

SpecHub == Init /\ [][HubNext]_vars

\* ------------------------------------------------------------------------
\* The agent gateway beside the state store: calls of both roles, the admin
\* reset and the readers
\* ------------------------------------------------------------------------
GateNext ==
    \/ \E role \in Roles : CallBegin(role)
    \/ \E role \in Roles : CallReply(role)
    \/ \E role \in Roles : ReconcileBegin(role)
    \/ \E role \in Roles : CallEnd(role)
    \/ MutateBegin("admin", "reset")
    \/ \E w \in Writers : MutateCommit(w)
    \/ \E r \in Readers : Read(r)
    \/ \E r \in Readers : Release(r)

SpecGate == Init /\ [][GateNext]_vars

\* ------------------------------------------------------------------------
\* Fan-out: the reconciler publishes the event of each commit through the
\* broadcast hub, one publish at a time, oldest unpublished commit first
\* ------------------------------------------------------------------------
FanoutMutations == {"setPipeline", "moveLead", "updateLead"}
FanoutConns == {"c1", "c2"}

\* the event variant of a committed change
EventOf(fn) ==
    CASE fn = "setPipeline" -> "PipelineReady"
      [] fn = "moveLead" -> "LeadStageChanged"
      [] fn = "updateLead" -> "LeadUpdated"

FanoutMutateBegin(fn) ==
    /\ Len(committed) < MaxEvents
    /\ MutateBegin("reconciler", fn)

\* a publish of the event of the latest commit, whatever was published
PublishLatest ==
    /\ pub.st # "sending"
    /\ pub.event < Len(committed)
    /\ pub' = [event |-> Len(committed), kind |-> EventOf(committed[Len(committed)].fn),
               st |-> "sending", todo |-> registry,
               targets |-> Registered, got |-> {}, failed |-> {}, skipped |-> {},
               after |-> {}, prevFailed |-> pub.failed]
    /\ hubError' = FALSE
    /\ lastOp' = NoOp
    /\ UNCHANGED <<registry, closed, uiVars, gateVars, storeVars, fileVars>>

\* publish(event) for the oldest commit not yet published
PublishCommitted ==
    /\ pub.st # "sending"
    /\ pub.event < Len(committed)
    /\ pub' = [event |-> pub.event + 1, kind |-> EventOf(committed[pub.event + 1].fn),
               st |-> "sending", todo |-> registry,
               targets |-> Registered, got |-> {}, failed |-> {}, skipped |-> {},
               after |-> {}, prevFailed |-> pub.failed]
    /\ hubError' = FALSE
    /\ lastOp' = NoOp
    /\ UNCHANGED <<registry, closed, uiVars, gateVars, storeVars, fileVars>>

FanoutNext ==
    \/ \E fn \in FanoutMutations : FanoutMutateBegin(fn)
    \/ MutateCommit("reconciler")
    \/ \E c \in FanoutConns : Subscribe(c)
    \/ \E c \in FanoutConns : CloseConnection(c)
    \/ PublishCommitted
    \/ \E ok \in BOOLEAN : Deliver(ok)
    \/ PublishEnd

\* the event loop runs every publish and every send that is due
FanoutFairness ==
    /\ WF_vars(PublishCommitted)
    /\ WF_vars(\E ok \in BOOLEAN : Deliver(ok))
    /\ WF_vars(PublishEnd)

SpecFanout == Init /\ [][FanoutNext]_vars /\ FanoutFairness

\* ------------------------------------------------------------------------
\* The persistence manager beside the state store
\* ------------------------------------------------------------------------
PersistNext ==
    \/ \E fn \in Mutations : PersistMutateBegin("reconciler", fn)
    \/ PersistMutateCommit("reconciler")
    \/ \E kind \in {"periodic", "shutdown"} : SaveBegin(kind)
    \/ SaveWrite
    \/ SaveFail
    \/ SaveRename
    \/ Crash
    \/ Startup

SpecPersist == Init /\ [][PersistNext]_vars

\* Startup over whatever an earlier run or an operator left at the final
\* path: nothing, a complete document, or a document that does not parse
LeftFiles ==
    {<<>>, <<"{">>, <<"{", "pipeline", 1>>, <<"{", "leads", 1, "}">>,
     Serialize(EmptySnapshot), Serialize([pipeline |-> TRUE, leads |-> 1])}

RecoverInit ==
    /\ DashInit
    /\ KbInit
    /\ LcInit
    /\ ChatInit
    /\ StoreInit
    /\ HubInit
    /\ GateInit
    /\ file \in LeftFiles
    /\ temp = <<>>
    /\ saver = IdleSaver("none")
    /\ process = "down"

SpecRecover == RecoverInit /\ [][PersistNext]_vars

\* ------------------------------------------------------------------------
\* Properties
\* ------------------------------------------------------------------------
Range(seq) == {seq[k] : k \in DOMAIN seq}
NonNull(v) == v.t # "undefined" /\ v.t # "null"
InRange(v, n) == v.t = "number" /\ v.n \in 1..n

\* the number of lead cards the board shows in columns 1..i
RECURSIVE CardsShown(_)
CardsShown(i) ==
    IF i = 0 THEN 0
    ELSE Len(GetLeadsForStage(stages[i].id)) + CardsShown(i - 1)

\* C1: once the pipelineData effect has run on a payload whose total_stages
\* is a number N >= 1, the board holds exactly N stages, the i-th with
\* ordinal i, and no stage has an absent or null name or goal, whichever
\* per-stage keys the payload lacks.
C1_StagesOneToN ==
    (kbEffect = "none" /\ pipelineData.total_stages.t = "number"
                       /\ pipelineData.total_stages.n >= 1)
    => /\ Len(stages) = pipelineData.total_stages.n
       /\ \A i \in 1..Len(stages) :
            /\ stages[i].id = i
            /\ NonNull(stages[i].name)
            /\ NonNull(stages[i].goal)

\* C1 witness: a payload of MaxStages stages with the first name absent and
\* the first goal null has been reconstructed.
C1_Witness ==
    /\ kbEffect = "none"
    /\ pipelineData.total_stages = Num(MaxStages)
    /\ pipelineData.stage_name[1] = Undef
    /\ pipelineData.brief_stage_goal[1] = Null
    /\ Len(stages) = MaxStages
    /\ stages[1].name = Str("Stage 1")

\* C2 (as claimed): whenever the board holds a stage list of N >= 1 stages,
\* the stage of every lead it holds is a number in 1..N.
C2_LeadStageInRange ==
    Len(stages) > 0 => \A k \in 1..Len(leads) : InRange(leads[k].stage, Len(stages))

\* C3 (as claimed): a lead's stage never changes to a value outside
\* 1..stageCount; an update that names such a stage leaves the lead as it was.
C3_OutOfRangeRejected ==
    [][Len(stages') > 0 =>
        \A k \in 1..Len(leads), j \in 1..Len(leads') :
            (leads'[j].id = leads[k].id /\ leads'[j].stage # leads[k].stage)
            => InRange(leads'[j].stage, Len(stages'))]_vars

\* C4 (as claimed): reconstruction from a payload whose total_stages is a
\* number below 1 leaves the stage list as it was.
C4_MalformedKeepsPipeline ==
    [][(kbEffect # "none" /\ pipelineData.total_stages.t = "number"
                          /\ pipelineData.total_stages.n < 1)
       => stages' = stages]_vars

\* C5: every change of the board's stage list installs either the empty
\* list or the whole list of the payload at hand: as many stages as
\* total_stages says, each one the stage built from that payload, never a
\* part of it and never a stage of the list held before.
C5_AtomicSwap ==
    [][stages' # stages =>
        \/ stages' = <<>>
        \/ /\ HasTotalStages(pipelineData')
           /\ Len(stages') = pipelineData'.total_stages.n
           /\ \A i \in 1..Len(stages') : stages'[i] = StageOf(pipelineData', i)]_vars

\* C5 witness: a one-stage list has replaced a longer one under a mounted
\* board; a lead added by hand to column 2 of the previous list is still held.
C5_Witness ==
    /\ Len(stages) = 1
    /\ \E k \in 1..Len(leads) :
        leads[k].id \in {Str("lead-0"), Str("lead-1")} /\ leads[k].stage = Num(2)

\* C6: at most one mutation is executing at any instant, and the current
\* snapshot is the result of applying the committed mutations one at a time
\* in commit order to the empty snapshot.
C6_MutationsSerialized ==
    /\ Cardinality({w \in Writers : pc[w].st = "executing"}) <= 1
    /\ heap[store] = ApplyAll(committed, 1, EmptySnapshot)

\* Two writers have committed a lead each, and a third mutation is executing.
C6_Witness ==
    /\ \E i, j \in 1..Len(committed) :
        /\ i < j
        /\ committed[i].by # committed[j].by
        /\ committed[i].fn = "addLead" /\ committed[j].fn = "addLead"
    /\ heap[store].leads = 2
    /\ \E w \in Writers : pc[w].st = "executing"

\* C7: a snapshot handed out by read() still has the value it had when it
\* was read, whatever was committed since, and every executing mutation can
\* commit whatever the readers hold.
C7_HeldSnapshotImmutable ==
    /\ \A r \in Readers : held[r].ref # 0 => heap[held[r].ref] = held[r].value
    /\ \A w \in Writers : pc[w].st = "executing" => ENABLED MutateCommit(w)

\* A reader still holds a snapshot with a lead in it after a reset was
\* committed, and another reader holds the snapshot after the reset.
C7_Witness ==
    \E r, q \in Readers :
        /\ held[r].ref # 0 /\ held[r].ref # store
        /\ held[r].value.leads > 0
        /\ heap[store] = EmptySnapshot
        /\ held[q].ref = store

\* C8 (as claimed): a reset leaves the state of process start: no pipeline,
\* no lead session and no lead transcript.
C8_ResetYieldsEmptyState ==
    [][LcResetState =>
          /\ pipelineData' = NoPipeline
          /\ leadSession' = NoSession
          /\ leadMessages' = <<>>]_vars

\* C9 (as claimed): while the board is shown, the lead cards of all columns
\* together are as many as the leads the header counts.
C9_EveryLeadInAColumn ==
    (BoardShown /\ kbEffect = "none") => CardsShown(Len(stages)) = Len(leads)

\* C11 (as claimed): while the board is shown its columns are in ascending
\* stage order, and the leads of each column, in the order of their cards,
\* are in ascending created_at order.
C11_ColumnsAndCardsOrdered ==
    (BoardShown /\ kbEffect = "none") =>
        /\ \A i \in 1..Len(stages) : stages[i].id = i
        /\ \A j, k \in 1..Len(leads) :
              (j < k /\ leads[j].stage = leads[k].stage /\ InRange(leads[j].stage, Len(stages)))
                  => leads[j].created_at.n <= leads[k].created_at.n

\* C12 (as claimed): every lead that a load or the Add Lead button has just
\* put on the board without a stage of its own stands at stage 1.
C12_NewLeadAtStageOne ==
    [][/\ \A d \in LeadResponses :
             (leadFetches' = leadFetches - 1 /\ FetchLeadsOk(d)) =>
                 \A k \in 1..Len(d) : d[k].stage = Undef => leads'[k].stage = Num(1)
       /\ \A i \in 1..MaxStages, t \in ClockValues :
             (Len(leads') = Len(leads) + 1 /\ AddNewLead(i, t)) =>
                 leads'[Len(leads')].stage = Num(1)]_vars

\* C12 (amended): a lead loaded without a stage stands at stage 1, and a
\* lead added with the Add Lead button of a column stands in that column.
C12_DefaultStageOne ==
    [][/\ \A d \in LeadResponses :
             (leadFetches' = leadFetches - 1 /\ FetchLeadsOk(d)) =>
                 \A k \in 1..Len(d) : d[k].stage = Undef => leads'[k].stage = Num(1)
       /\ \A i \in 1..MaxStages, t \in ClockValues :
             (Len(leads') = Len(leads) + 1 /\ AddNewLead(i, t)) =>
                 leads'[Len(leads')].stage = Num(stages[i].id)]_vars

\* C12 witness: a loaded lead stands in column 1 while no fetch is
\* outstanding, next to a lead added in the last column.
C12_Witness ==
    /\ BoardShown /\ leadFetches = 0
    /\ \E j, k \in 1..Len(leads) :
          /\ leads[j].id \in {Str("a"), Str("b")} /\ leads[j].stage = Num(1)
          /\ leads[k].id \in {Str("lead-" \o ToString(c)) : c \in ClockValues}
          /\ leads[k].stage = Num(MaxStages)

\* C10: right after a move button took a lead from column a to column b,
\* the lead's id is among the cards of column b and of no other column.
C10_MovedLeadInTargetOnly ==
    lastMove # NoMove =>
        /\ lastMove.id \in Range(GetLeadsForStage(lastMove.to))
        /\ \A i \in 1..Len(stages) :
            stages[i].id # lastMove.to
            => lastMove.id \notin Range(GetLeadsForStage(stages[i].id))

\* C10 witness: one of two leads of a column has just been moved to another
\* column, the other one stayed.
C10_Witness ==
    /\ lastMove # NoMove
    /\ lastMove.from # lastMove.to
    /\ \E k \in 1..Len(leads) :
        leads[k].id # lastMove.id /\ leads[k].stage = Num(lastMove.from)

\* C13: a publish in which observers fail still delivers the event to every
\* observer that was subscribed and did not fail (nor unsubscribe meanwhile);
\* the failure neither aborts the publish nor reaches the publisher.
C13_PublishReachesHealthyObservers ==
    pub.st = "done" =>
        /\ \A o \in pub.targets \ (pub.failed \cup pub.skipped) : o \in pub.got
        /\ ~hubError

C13_Witness ==
    /\ pub.st = "done"
    /\ pub.failed # {}
    /\ pub.after # {}
    /\ pub.skipped = {}

\* C14: an observer whose delivery failed is deregistered by that publish; a
\* publish targets exactly the observers registered when it starts and
\* delivers only to registered observers; an observer leaves the registry
\* only by its own failure or its own unsubscribe.
C14_FailedObserverDeregistered ==
    [][ /\ \A o \in pub'.failed \ pub.failed : o \notin {registry'[k] : k \in DOMAIN registry'}
        /\ pub'.event # pub.event => pub'.targets = Registered
        /\ pub'.event = pub.event => \A o \in pub'.got \ pub.got : o \in Registered
        /\ \A o \in Registered \ {registry'[k] : k \in DOMAIN registry'} :
              \/ pub'.event = pub.event /\ o \in pub'.failed \ pub.failed
              \/ lastOp'.op = "unsubscribe" /\ lastOp'.c = o ]_vars

C14_Witness ==
    /\ pub.event > 1
    /\ pub.st = "done"
    /\ pub.prevFailed # {}
    /\ pub.prevFailed \cap pub.targets = {}
    /\ pub.got = pub.targets
    /\ pub.got # {}

\* C15: subscribing a registered connection leaves it registered exactly
\* once, unsubscribing an unregistered connection changes nothing, and
\* neither reports an error.
C15_SubscribeUnsubscribeIdempotent ==
    [][ /\ lastOp'.op = "subscribe" =>
              /\ Cardinality({k \in DOMAIN registry' : registry'[k] = lastOp'.c}) = 1
              /\ lastOp'.was => registry' = registry
              /\ ~hubError'
        /\ lastOp'.op = "unsubscribe" =>
              /\ lastOp'.c \notin {registry'[k] : k \in DOMAIN registry'}
              /\ ~lastOp'.was => registry' = registry
              /\ ~hubError' ]_vars

C15_Witness ==
    /\ lastOp.op = "subscribe"
    /\ lastOp.was
    /\ Registrations(lastOp.c) = 1
    /\ Len(registry) > 1

C17_SnapshotFileAbsentOrComplete ==
    [][ /\ file' = <<>> \/ Parses(file')
        /\ file' # file => (file' = Serialize(saver.snap) /\ saver.snap \in Range(heap)) ]_vars

C17_Witness ==
    /\ process = "running"
    /\ saver.result = "failed"
    /\ temp # <<>>
    /\ ~Parses(temp)
    /\ Parses(file)
    /\ Parse(file) # saver.snap

\* C18: startup always completes: the store holds the file's content when
\* the file exists and parses, and the empty snapshot when it is missing or
\* does not parse; a failed periodic save changes nothing in memory and
\* leaves the process running.
C18_StartupCompletes ==
    [][ /\ process = "down" =>
              /\ ENABLED Startup
              /\ process' = "running"
              /\ heap'[store'] = IF file # <<>> /\ Parses(file) THEN Parse(file)
                                 ELSE EmptySnapshot
        /\ (saver.st = "writing" /\ saver.kind = "periodic" /\ saver'.result = "failed") =>
              /\ UNCHANGED storeVars
              /\ process' = "running" ]_vars

C18_Witness ==
    /\ process = "running"
    /\ saver.loaded = "unparsable"
    /\ file # <<>>
    /\ ~Parses(file)
    /\ saver.kind = "periodic"
    /\ saver.result = "failed"
    /\ heap[store] # EmptySnapshot

\* C19: agent sessions are created lazily and reused: at most one builder
\* session is established per conversation, whatever the sends, failures
\* and tab switches.
C19_OneSessionPerConversation ==
    remote <= 1

\* C20: a failed agent call is not retried and not swallowed: the failed
\* send issues no further request and records no agent reply, and a
\* timeout, a rate limit and an internal error are each shown as an error
\* of their own.
C20_FailuresDistinguished ==
    [][ \A k1 \in {"timeout", "rate-limit", "internal"} :
            (sends > 0 /\ LeadSendDone(k1)) =>
                /\ sends' = sends - 1
                /\ messages'[Len(messages')] # AgentMessage
                /\ \A k2 \in {"timeout", "rate-limit", "internal"} \ {k1} :
                       ~LeadSendDone(k2) ]_vars

\* C21 (as claimed): an agent call that fails, or whose reply carries a
\* payload that is not a full valid one, commits nothing: the pipeline
\* definition, the pipeline-ready status and the leads are what they were.
C21_NothingCommittedWithoutValidReply ==
    [][ \A k \in 1..(MaxPending + 1) :
          /\ \A o \in Failures :
                (Len(owner') < Len(owner) /\ ChatSendDone(k, o)) =>
                    /\ pipelineData' = pipelineData
                    /\ leads' = leads
          /\ \A p \in ChatPayloads :
                (/\ Len(owner') < Len(owner)
                 /\ ~(Truthy(p.biz_name) /\ Truthy(p.total_stages))
                 /\ ChatSendComplete(k, p)) =>
                    /\ pipelineData' = pipelineData
                    /\ IsPipelineReady(pipelineData') = IsPipelineReady(pipelineData)
                    /\ leads' = leads ]_vars

\* C22: an awaited agent call holds nothing of the store: while calls are
\* awaiting their replies every reader can read, every executing mutation
\* can commit, and with no mutation executing the admin reset and the
\* reconcile of another role's returned reply can start; a call's own
\* mutation starts only after its reply has returned.
C22_AwaitedCallNeverBlocksStore ==
    [][ /\ (\E role \in Roles : agentCalls[role] = "awaiting") =>
              /\ \A r \in Readers : held[r].ref = 0 => ENABLED Read(r)
              /\ \A w \in Writers : pc[w].st = "executing" => ENABLED MutateCommit(w)
              /\ ((\A w \in Writers : pc[w].st = "idle") /\ Len(committed) < MaxCommits) =>
                    /\ ENABLED MutateBegin("admin", "reset")
                    /\ \A role \in Roles : agentCalls[role] = "replied" => ENABLED ReconcileBegin(role)
        /\ (pc["reconciler"].st = "idle" /\ pc'["reconciler"].st = "executing") =>
              \E role \in Roles : /\ FnOf(role) = pc'["reconciler"].fn
                                  /\ agentCalls[role] = "replied" ]_vars

C22_Witness ==
    /\ \A role \in Roles : agentCalls[role] = "awaiting"
    /\ pc["admin"].st = "executing"
    /\ held["projector"].ref # 0
    /\ \E k \in 1..Len(committed) : committed[k].by = "reconciler"


\* C23: a click on a move button of the card of lead L (position k of the
\* list) changes the stage of L and nothing else: every other field of L,
\* every other lead record, the stage list and the pipeline definition are
\* unchanged.
C23_MoveChangesOnlyTheAddressedLead ==
    [][\A i \in 1..MaxStages, k \in 1..MaxLeads :
          (lastMove' # NoMove /\ (ClickMovePrev(i, k) \/ ClickMoveNext(i, k))) =>
              /\ Len(leads') = Len(leads)
              /\ leads'[k] = [leads[k] EXCEPT !.stage = Num(lastMove'.to)]
              /\ \A j \in 1..Len(leads) : j # k => leads'[j] = leads[j]
              /\ stages' = stages
              /\ pipelineData' = pipelineData]_vars

\* C26: no two lead records on the board carry the same id.
C26_LeadIdsNeverReused ==
    \A j, k \in 1..Len(leads) : j # k => leads[j].id # leads[k].id

\* C24: once pipelineData holds a pipeline of N stages, every step other
\* than a reset leaves it a pipeline of N stages, whatever builder reply or
\* pipeline fetch the step handles.
C24_StageCountImmutableOnceReady ==
    [][(HasTotalStages(pipelineData) /\ ~ResetState) =>
           /\ HasTotalStages(pipelineData')
           /\ pipelineData'.total_stages = pipelineData.total_stages]_vars

\* C25: while pipelineData holds no pipeline with at least one stage, no
\* step creates a lead session and the board holds no lead.
C25_NoLeadBeforeReadyPipeline ==
    [][/\ ~HasTotalStages(pipelineData) =>
              (leadSession' # leadSession => leadSession' = NoSession)
       /\ ~HasTotalStages(pipelineData') => leads' = <<>>]_vars

IsPrefix(s, t) == Len(s) <= Len(t) /\ SubSeq(t, 1, Len(s)) = s

\* C27: while a chat stays mounted its transcript only grows at the end: the
\* message list before a step is a prefix of the list after it, for the
\* owner's chat and for the lead's chat.
C27_TranscriptsAppendOnly ==
    [][/\ (activeTab = "chat" /\ activeTab' = "chat") => IsPrefix(crmMessages, crmMessages')
       /\ (activeTab = "leadchat" /\ activeTab' = "leadchat") => IsPrefix(messages, messages')]_vars

Missing(v) == v = Undef \/ v = Null
DefaultTags(i) == Arr(<<"stage_" \o ToString(i), "active">>)

C30_WrongShapeRejected ==
    (/\ kbEffect = "none"
     /\ HasTotalStages(pipelineData)
     /\ \E i \in 1..MaxStages :
           /\ i <= pipelineData.total_stages.n
           /\ Key(pipelineData, "user_tags", i).t \notin {"undefined", "array"})
    => stages = <<>>

\* C31: once Dashboard holds a lead session, no step issues a further
\* /lead/create request or changes the session, and a switch of tab leaves
\* the stored messages as they are.
C31_SessionCreatedOnlyOnce ==
    [][leadSession # NoSession =>
          /\ creates'.mine + creates'.stale <= creates.mine + creates.stale
          /\ leadSession' = leadSession
          /\ activeTab' # activeTab => leadMessages' = leadMessages]_vars

\* C32: while CRMChat stays mounted, a file leaves uploadedFiles only in the
\* step that handles the successful reply of a request that carried it.
C32_FilesClearedOnlyWhenSent ==
    [][\A f \in Files :
          (/\ f \in Range(uploadedFiles)
           /\ f \notin Range(uploadedFiles')
           /\ activeTab' = "chat")
          => \E k \in 1..Len(owner) :
                /\ f \in owner[k].files
                /\ \/ ChatSendDone(k, "ok")
                   \/ \E p \in ChatPayloads \cup {NoPipeline} : ChatSendComplete(k, p)]_vars

\* C33: the Kanban or Lead Chat tab is active only while the pipeline is
\* ready.
C33_GatedTabsNeedReadyPipeline ==
    activeTab \in {"kanban", "leadchat"} => IsPipelineReady(pipelineData)

Mine == {k \in 1..Len(owner) : owner[k].by = "mine"}

\* C34: each mounted chat has at most one request of its own outstanding,
\* and no send starts while one is.
C34_OneOutstandingSendPerChat ==
    /\ [](sends <= 1 /\ Cardinality(Mine) <= 1)
    /\ [][/\ (sends > 0 /\ activeTab' = "leadchat") => sends' <= sends
          /\ (Mine # {} /\ activeTab' = "chat") => Len(owner') <= Len(owner)]_vars

\* C34 witness: the owner's chat has one request of its own outstanding
\* beside one of an earlier mounting, and the lead's chat had a send.
C34_Witness ==
    /\ Cardinality(Mine) = 1
    /\ Len(owner) = 2
    /\ crmLoading
    /\ \E k \in 1..Len(leadMessages) : leadMessages[k] = UserMessage

IsReply(m) == m.type \in {"agent", "error"}
Replies35(msgs) == Cardinality({j \in 1..Len(msgs) : IsReply(msgs[j])})

\* C35: a mounted chat that is loading because of a send stops loading in
\* the end, and the step that handles the outcome of the send clears
\* isLoading and appends exactly one reply: the agent's message on success,
\* an error message on failure; so in the lead's transcript every message
\* of the user whose request is over is followed by its reply.
C35_SendClearsLoadingWithOneReply ==
    /\ (crmLoading ~> ~crmLoading)
    /\ ((lcLoading /\ sends > 0) ~> ~lcLoading)
    /\ [][/\ (Cardinality(Mine) = 1 /\ activeTab' = "chat" /\ Len(owner') < Len(owner)
               /\ Mine' = {}) =>
                 /\ ~crmLoading'
                 /\ Replies35(crmMessages') = Replies35(crmMessages) + 1
          /\ (sends = 1 /\ sends' = 0 /\ activeTab' = "leadchat") =>
                 /\ ~lcLoading'
                 /\ Len(messages') = Len(messages) + 1
                 /\ messages'[Len(messages')] \in {AgentMessage, SendError}]_vars
    /\ [] ((activeTab = "leadchat" /\ lcEffect = "none" /\ sends = 0) =>
              \A j \in 1..Len(messages) :
                  messages[j] = UserMessage =>
                      /\ j < Len(messages)
                      /\ messages[j + 1] \in {AgentMessage, SendError})

\* the messages a queue of updates appends
Appends(updates) == Cardinality({i \in DOMAIN updates : updates[i].fn = "append"})

\* C36: no interleaving of a message append with the [existingMessages] and
\* [messages, onMessagesUpdate] effects loses a message: the transcript
\* LeadChat shows never becomes shorter, and every append that is queued
\* ends up in it.
C36_SyncNeverLosesAMessage ==
    [][Len(messages') + Appends(queued'.messages)
           >= Len(messages) + Appends(queued.messages)]_vars

\* C37: once no further message is appended, LeadChat's messages and
\* Dashboard's leadMessages become equal for good, with no effect scheduled
\* and no update queued.
C37_SyncConverges ==
    <>[][Appends(queued'.messages) <= Appends(queued.messages)]_vars
        => <>[](messages = leadMessages /\ lcEffect = "none" /\ queued = NoUpdates)

\* C38: once a completion payload has been applied, the response of a
\* pipeline fetch issued before it, with older data or failed, neither
\* overwrites nor clears the applied pipeline.
C38_EarlierFetchKeepsAppliedPipeline ==
    [][(pipelineData \in Completions /\ fetches'.plain < fetches.plain)
           => pipelineData' = pipelineData]_vars

\* C39: when all lead fetches of the board have completed, the leads shown
\* are those returned to the fetch issued last, whatever order the
\* responses arrived in.
C39_LatestFetchWins ==
    (leadCalls.issued > 0 /\ leadCalls.open = {})
        => \E st \in RawStages :
               leads = SanitizeLeads(ResponseTo(leadCalls.issued, st), 0)

\* C40: for each owner chat reply that reports pipeline_complete, CRMChat
\* calls onPipelineComplete once, in the handler of the reply: no effect
\* run calls it again for the completion message of that reply, with or
\* without a pipeline_payload and whatever Dashboard renders afterwards.
C40_NotifiedExactlyOnce ==
    [][~(LastIsCompletion(crmMessages) /\ ChatEffects)]_vars

====
